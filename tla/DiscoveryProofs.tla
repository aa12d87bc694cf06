-------------------------- MODULE DiscoveryProofs --------------------------
(***************************************************************************)
(* Proofs about the video page and about what discovery does to the pages, *)
(* for any number of videos, names, tabs and web pages.                    *)
(*                                                                         *)
(* The layout properties lean on each other.  The loops that empty a pane  *)
(* only empty it if it holds at most one video (OneVideoPerPane), the      *)
(* hidden panes are empty because the loops empty them (HiddenPanesEmpty), *)
(* and the handler of RtspWentAway, which searches the visible panes only, *)
(* finds every video because the hidden panes are empty.  Nothing in the   *)
(* code says how old a video in the quads is: the oldest one is replaced   *)
(* because the quads are taken in turn (InTurn).                           *)
(*                                                                         *)
(* Both backends drive the page by its own steps, so it keeps these        *)
(* properties in the program; with them the list of senders and the page   *)
(* are compared, which the code never does.                                *)
(***************************************************************************)
EXTENDS AvahiBrowse, EmbeddedAvahiBrowse, WebPages, FiniteSetTheorems, TLAPS

PageInv == /\ TypeOK
        /\ OneVideoPerPane
        /\ HiddenPanesEmpty
        /\ NoVideoOfGoneSender

-----------------------------------------------------------------------------
(* Children lists of at most one video.                                    *)

\* A list of at most one item has none or one.
LEMMA AtMostOne ==
  ASSUME NEW n \in Nat, n <= 1
  PROVE  n = 0 \/ n = 1
OBVIOUS

\* A children list of at most one video is empty or is one video.
LEMMA ShortList ==
  ASSUME NEW s \in Seq(Video), Len(s) <= 1
  PROVE  s = << >> \/ \E x \in Video : s = <<x>>
<1>1. Len(s) \in Nat
  OBVIOUS
<1>2. CASE Len(s) = 0
  BY <1>2
<1>3. CASE Len(s) = 1
  <2>1. s[1] \in Video /\ s = <<s[1]>>
    BY <1>3
  <2> QED
    BY <2>1
<1> QED
  BY <1>1, <1>2, <1>3, AtMostOne

\* The index loop empties a list of at most one video.
LEMMA SkippedShort ==
  ASSUME NEW s \in Seq(Video), Len(s) <= 1
  PROVE  Skipped(s) = << >>
<1>1. Len(s) \in Nat
  OBVIOUS
<1>2. Len(s) \div 2 = 0
  BY <1>1, AtMostOne
<1>3. 1..0 = {}
  OBVIOUS
<1> QED
  BY <1>2, <1>3 DEF Skipped

\* ... and the video it moved last is the one that was there.
LEMMA LastMovedShort ==
  ASSUME NEW s \in Seq(Video), Len(s) <= 1
  PROVE  LastMoved(s) = << >> \/ (LastMoved(s) # << >> /\ LastMoved(s)[1] \in Video)
<1>1. CASE s = << >>
  BY <1>1 DEF LastMoved
<1>2. ASSUME NEW x \in Video, s = <<x>>
      PROVE  LastMoved(s) = <<x>>
  BY <1>2 DEF LastMoved
<1>3. \A x \in Video : <<x>> # << >> /\ <<x>>[1] = x
  OBVIOUS
<1> QED
  BY <1>1, <1>2, <1>3, ShortList

\* Reparenting one video leaves a list of at most one video that way.
LEMMA UnparentShort ==
  ASSUME NEW s \in Seq(Video), Len(s) <= 1, NEW v
  PROVE  /\ Unparent(s, v) \in Seq(Video)
         /\ Len(Unparent(s, v)) <= 1
         /\ s = << >> => Unparent(s, v) = << >>
<1>1. CASE s = << >>
  BY <1>1 DEF Unparent
<1>2. ASSUME NEW x \in Video, s = <<x>>
      PROVE  Unparent(s, v) \in {<< >>, s}
  <2>1. DOMAIN s = {1} /\ s[1] = x /\ Len(s) = 1
    BY <1>2
  <2>2. RemoveAt(s, 1) = << >>
    BY <2>1 DEF RemoveAt
  <2>3. CASE x = v
    BY <2>1, <2>2, <2>3 DEF Unparent
  <2>4. CASE x # v
    BY <2>1, <2>4 DEF Unparent
  <2> QED
    BY <2>3, <2>4
<1>3. CASE s # << >>
  <2>1. PICK x \in Video : s = <<x>>
    BY <1>3, ShortList
  <2>2. Unparent(s, v) \in {<< >>, s}
    BY <1>2, <2>1
  <2>3. Len(<< >>) <= 1 /\ << >> \in Seq(Video)
    OBVIOUS
  <2> QED
    BY <1>3, <2>2, <2>3
<1> QED
  BY <1>1, <1>3

\* Showing a video in one pane keeps one video per pane, and empty panes empty.
LEMMA ShowInShort ==
  ASSUME NEW ch \in [Pane -> Seq(Video)], \A q \in Pane : Len(ch[q]) <= 1,
         NEW p \in Pane, NEW v \in Video
  PROVE  /\ ShowIn(ch, p, v) \in [Pane -> Seq(Video)]
         /\ \A q \in Pane : Len(ShowIn(ch, p, v)[q]) <= 1
         /\ \A q \in Pane : q # p /\ ch[q] = << >> => ShowIn(ch, p, v)[q] = << >>
<1>1. ASSUME NEW q \in Pane, q # p
      PROVE  /\ ShowIn(ch, p, v)[q] \in Seq(Video)
             /\ Len(ShowIn(ch, p, v)[q]) <= 1
             /\ ch[q] = << >> => ShowIn(ch, p, v)[q] = << >>
  <2>1. ShowIn(ch, p, v)[q] = Unparent(ch[q], v)
    BY <1>1 DEF ShowIn
  <2>2. ch[q] \in Seq(Video) /\ Len(ch[q]) <= 1
    OBVIOUS
  <2> QED
    BY <2>1, <2>2, UnparentShort
<1>2. ShowIn(ch, p, v)[p] = <<v>>
  <2>1. ShowIn(ch, p, v)[p] = Append(Unparent(Skipped(ch[p]), v), v)
    BY DEF ShowIn
  <2>2. Skipped(ch[p]) = << >>
    BY SkippedShort
  <2>3. Unparent(<< >>, v) = << >>
    BY DEF Unparent
  <2>4. Append(<< >>, v) = <<v>>
    OBVIOUS
  <2> QED
    BY <2>1, <2>2, <2>3, <2>4
<1>3. <<v>> \in Seq(Video) /\ Len(<<v>>) <= 1
  OBVIOUS
<1>4. ShowIn(ch, p, v) = [q \in Pane |-> ShowIn(ch, p, v)[q]]
  BY DEF ShowIn
<1> QED
  BY <1>1, <1>2, <1>3, <1>4

-----------------------------------------------------------------------------
(* The invariant.                                                          *)

\* The page starts empty, in the quad view.
LEMMA InitPage == Init => PageInv
BY DEF Init, PageInv, TypeOK, OneVideoPerPane, HiddenPanesEmpty, NoVideoOfGoneSender,
       VisiblePanes, Pane, mainVideo, Quads

\* A found sender adds a video to otherVideos; no pane changes.
LEMMA FoundPage ==
  ASSUME PageInv, NEW n \in Name, onRpiVideoSenderRtspFound(n)
  PROVE  PageInv'
<1> USE DEF PageInv, onRpiVideoSenderRtspFound
<1>1. PICK v \in Video \ alive :
        /\ alive' = alive \cup {v}
        /\ uniqueName' = [w \in alive' |-> IF w = v THEN n ELSE uniqueName[w]]
  OBVIOUS
<1>2. TypeOK'
  BY <1>1 DEF TypeOK
<1>3. OneVideoPerPane' /\ HiddenPanesEmpty'
  BY DEF OneVideoPerPane, HiddenPanesEmpty, VisiblePanes
<1>4. NoVideoOfGoneSender'
  BY <1>1 DEF NoVideoOfGoneSender, TypeOK
<1> QED
  BY <1>2, <1>3, <1>4

\* A lost sender: the hidden panes, which are not searched, hold no video.
LEMMA WentAwayPage ==
  ASSUME PageInv, NEW n \in Name, onRpiVideoSenderRtspWentAway(n)
  PROVE  PageInv'
<1> USE DEF PageInv, onRpiVideoSenderRtspWentAway
<1>1. TypeOK'
  BY DEF TypeOK
<1>2. OneVideoPerPane' /\ HiddenPanesEmpty'
  BY DEF OneVideoPerPane, HiddenPanesEmpty, VisiblePanes
<1>3. \A v \in alive, p \in Pane \ VisiblePanes : ~IsIn(v, p)
  BY DEF HiddenPanesEmpty, IsIn
<1>4. NoVideoOfGoneSender'
  BY <1>3 DEF NoVideoOfGoneSender
<1> QED
  BY <1>1, <1>2, <1>4

\* A click moves one video into one visible pane.
LEMMA ClickedPage ==
  ASSUME PageInv, NEW v \in Video, videoClicked(v)
  PROVE  PageInv'
<1>1. PICK p \in VisiblePanes : children' = ShowIn(children, p, v)
  BY DEF PageInv, TypeOK, videoClicked, ClickInMain, ClickInQuad, VisiblePanes, Quads,
         mainVideo, correctQuad
<1>2. p \in Pane /\ VisiblePanes \subseteq Pane
  BY DEF VisiblePanes, Pane
<1>3. children \in [Pane -> Seq(Video)] /\ \A q \in Pane : Len(children[q]) <= 1
  BY DEF PageInv, TypeOK, OneVideoPerPane
<1>4. /\ children' \in [Pane -> Seq(Video)]
      /\ \A q \in Pane : Len(children'[q]) <= 1
      /\ \A q \in Pane : q # p /\ children[q] = << >> => children'[q] = << >>
  BY <1>1, <1>2, <1>3, ShowInShort
<1>5. quadVideoNumber' \in 0..3
  BY DEF PageInv, TypeOK, videoClicked, ClickInMain, ClickInQuad, NextQuad
<1>6. UNCHANGED <<alive, dying, uniqueName, visible, announced>>
  BY DEF videoClicked
<1>7. TypeOK'
  BY <1>4, <1>5, <1>6 DEF PageInv, TypeOK
<1>8. OneVideoPerPane' /\ NoVideoOfGoneSender'
  BY <1>4, <1>6 DEF PageInv, OneVideoPerPane, NoVideoOfGoneSender
<1>9. HiddenPanesEmpty'
  BY <1>1, <1>4, <1>6 DEF PageInv, HiddenPanesEmpty, VisiblePanes
<1> QED
  BY <1>7, <1>8, <1>9 DEF PageInv

\* Multi empties mainVideo before it shows the quads.
LEMMA MultiPage ==
  ASSUME PageInv, onMultiClicked
  PROVE  PageInv'
<1> DEFINE emptied == [children EXCEPT ![mainVideo] = Skipped(@)]
           last == LastMoved(children[mainVideo])
           quad == correctQuad(quadVideoNumber)
<1>1. children \in [Pane -> Seq(Video)] /\ \A q \in Pane : Len(children[q]) <= 1
  BY DEF PageInv, TypeOK, OneVideoPerPane
<1>2. mainVideo \in Pane /\ quad \in Pane /\ quad # mainVideo
  BY DEF PageInv, TypeOK, Pane, mainVideo, Quads, correctQuad
<1>3. Skipped(children[mainVideo]) = << >>
  BY <1>1, <1>2, SkippedShort
<1>4. /\ emptied \in [Pane -> Seq(Video)]
      /\ \A q \in Pane : Len(emptied[q]) <= 1
      /\ emptied[mainVideo] = << >>
  <2>1. << >> \in Seq(Video) /\ Len(<< >>) <= 1
    OBVIOUS
  <2> QED
    BY <1>1, <1>2, <1>3, <2>1
<1> HIDE DEF emptied, last, quad
<1>5. /\ visible = "main" /\ visible' = "quad"
      /\ \/ last = << >> /\ children' = emptied /\ UNCHANGED quadVideoNumber
         \/ last # << >> /\ children' = ShowIn(emptied, quad, last[1])
              /\ quadVideoNumber' = NextQuad(quadVideoNumber)
      /\ UNCHANGED <<alive, dying, uniqueName, announced>>
  BY DEF onMultiClicked, emptied, last, quad
<1>6. last # << >> => last[1] \in Video
  BY <1>1, <1>2, LastMovedShort DEF last
<1>7. /\ children' \in [Pane -> Seq(Video)]
      /\ \A q \in Pane : Len(children'[q]) <= 1
      /\ children'[mainVideo] = << >>
  BY <1>2, <1>4, <1>5, <1>6, ShowInShort
<1>8. quadVideoNumber' \in 0..3
  BY <1>5 DEF PageInv, TypeOK, NextQuad
<1>9. TypeOK'
  BY <1>5, <1>7, <1>8 DEF PageInv, TypeOK
<1>10. OneVideoPerPane' /\ NoVideoOfGoneSender'
  BY <1>5, <1>7 DEF PageInv, OneVideoPerPane, NoVideoOfGoneSender
<1>11. HiddenPanesEmpty'
  BY <1>5, <1>7 DEF HiddenPanesEmpty, VisiblePanes, Pane
<1> QED
  BY <1>9, <1>10, <1>11 DEF PageInv

\* Single empties the four quads before it shows mainVideo.
LEMMA SinglePage ==
  ASSUME PageInv, onSingleClicked
  PROVE  PageInv'
<1> DEFINE emptied == [q \in Pane |-> IF q \in Quads THEN Skipped(children[q])
                                                      ELSE children[q]]
           last == LastMoved(children[1])
<1>1. children \in [Pane -> Seq(Video)] /\ \A q \in Pane : Len(children[q]) <= 1
  BY DEF PageInv, TypeOK, OneVideoPerPane
<1>2. 1 \in Pane /\ mainVideo \in Pane /\ mainVideo \notin Quads /\ Quads \subseteq Pane
  BY DEF Pane, mainVideo, Quads
<1>3. \A q \in Pane : Skipped(children[q]) = << >>
  BY <1>1, SkippedShort
<1>4. /\ emptied \in [Pane -> Seq(Video)]
      /\ \A q \in Pane : Len(emptied[q]) <= 1
      /\ \A q \in Quads : emptied[q] = << >>
  <2>1. << >> \in Seq(Video) /\ Len(<< >>) <= 1
    OBVIOUS
  <2> QED
    BY <1>1, <1>2, <1>3, <2>1
<1> HIDE DEF emptied, last
<1>5. /\ visible' = "main" /\ quadVideoNumber' = 0
      /\ children' = IF last = << >> THEN emptied ELSE ShowIn(emptied, mainVideo, last[1])
      /\ UNCHANGED <<alive, dying, uniqueName, announced>>
  BY DEF onSingleClicked, emptied, last
<1>6. last # << >> => last[1] \in Video
  BY <1>1, <1>2, LastMovedShort DEF last
<1>7. /\ children' \in [Pane -> Seq(Video)]
      /\ \A q \in Pane : Len(children'[q]) <= 1
      /\ \A q \in Quads : children'[q] = << >>
  <2>1. CASE last = << >>
    BY <1>4, <1>5, <2>1
  <2>2. CASE last # << >>
    BY <1>2, <1>4, <1>5, <1>6, <2>2, ShowInShort
  <2> QED
    BY <2>1, <2>2
<1>8. TypeOK'
  BY <1>5, <1>7 DEF PageInv, TypeOK
<1>9. OneVideoPerPane' /\ NoVideoOfGoneSender'
  BY <1>5, <1>7 DEF PageInv, OneVideoPerPane, NoVideoOfGoneSender
<1>10. HiddenPanesEmpty'
  BY <1>5, <1>7 DEF HiddenPanesEmpty, VisiblePanes, Pane
<1> QED
  BY <1>8, <1>9, <1>10 DEF PageInv

\* The event loop deletes a destroyed video.
LEMMA ReapPage ==
  ASSUME PageInv, NEW v \in Video, DeferredDelete(v)
  PROVE  PageInv'
<1>1. children \in [Pane -> Seq(Video)] /\ \A q \in Pane : Len(children[q]) <= 1
  BY DEF PageInv, TypeOK, OneVideoPerPane
<1>2. /\ children' \in [Pane -> Seq(Video)]
      /\ \A q \in Pane : Len(children'[q]) <= 1
      /\ \A q \in Pane : children[q] = << >> => children'[q] = << >>
  BY <1>1, UnparentShort DEF DeferredDelete
<1>3. TypeOK'
  BY <1>2 DEF PageInv, TypeOK, DeferredDelete
<1>4. OneVideoPerPane' /\ HiddenPanesEmpty'
  BY <1>2 DEF PageInv, OneVideoPerPane, HiddenPanesEmpty, VisiblePanes, DeferredDelete
<1>5. NoVideoOfGoneSender'
  BY DEF PageInv, TypeOK, NoVideoOfGoneSender, DeferredDelete
<1> QED
  BY <1>3, <1>4, <1>5 DEF PageInv

\* Every step of the page keeps the invariant.
LEMMA StepPage == PageInv /\ [Next]_formVars => PageInv'
<1> SUFFICES ASSUME PageInv, [Next]_formVars
             PROVE  PageInv'
  OBVIOUS
<1>1. ASSUME NEW n \in Name, onRpiVideoSenderRtspFound(n)
      PROVE  PageInv'
  BY <1>1, FoundPage
<1>2. ASSUME NEW n \in Name, onRpiVideoSenderRtspWentAway(n)
      PROVE  PageInv'
  BY <1>2, WentAwayPage
<1>3. ASSUME NEW v \in Video, videoClicked(v)
      PROVE  PageInv'
  BY <1>3, ClickedPage
<1>4. CASE onMultiClicked
  BY <1>4, MultiPage
<1>5. CASE onSingleClicked
  BY <1>5, SinglePage
<1>6. ASSUME NEW v \in Video, DeferredDelete(v)
      PROVE  PageInv'
  BY <1>6, ReapPage
<1>7. CASE UNCHANGED formVars
  BY <1>7 DEF formVars, PageInv, TypeOK, OneVideoPerPane, HiddenPanesEmpty,
              NoVideoOfGoneSender, VisiblePanes
<1> QED
  BY <1>1, <1>2, <1>3, <1>4, <1>5, <1>6, <1>7 DEF Next, UserStep, Reap

\* The video page keeps its type for any number of videos and names.
THEOREM TypeCorrect == Spec => []TypeOK
<1>1. PageInv => TypeOK
  BY DEF PageInv
<1> QED
  BY <1>1, InitPage, StepPage, PTL DEF Spec

\* At any time a pane of the page holds at most one video, so no stream is hidden
\* behind another one and the index loops of the page empty every pane.
THEOREM PanesHoldOneVideo == Spec => []OneVideoPerPane
<1>1. PageInv => OneVideoPerPane
  BY DEF PageInv
<1> QED
  BY <1>1, InitPage, StepPage, PTL DEF Spec

\* At any time the panes that are not shown are empty.
THEOREM HiddenPanesStayEmpty == Spec => []HiddenPanesEmpty
<1>1. PageInv => HiddenPanesEmpty
  BY DEF PageInv
<1> QED
  BY <1>1, InitPage, StepPage, PTL DEF Spec

\* Once a sender went away no live video of it is left anywhere on the page.
THEOREM GoneSendersHaveNoVideo == Spec => []NoVideoOfGoneSender
<1>1. PageInv => NoVideoOfGoneSender
  BY DEF PageInv
<1> QED
  BY <1>1, InitPage, StepPage, PTL DEF Spec

-----------------------------------------------------------------------------
(* The order in which the quads are taken.                                 *)

\* How many videos the quads take until it is the turn of quad q
Turn(n, q) == IF q > n THEN q - n ELSE (q + 4) - n

Holds(ch, q, x) == \E i \in DOMAIN ch[q] : ch[q][i] = x

\* A video is in one quad, and of two the older is in the quad whose turn comes earlier.
InTurn(ch, n, before) ==
  /\ \A x \in Video : \A p, q \in Quads : Holds(ch, p, x) /\ Holds(ch, q, x) => p = q
  /\ \A u, w \in Video : \A p, q \in Quads :
       Holds(ch, p, u) /\ Holds(ch, q, w) /\ Turn(n, p) < Turn(n, q) => <<u, w>> \in before

TakenInTurn == InTurn(children, quadVideoNumber, placedBefore)

LEMMA UnparentHolds ==
  ASSUME NEW s \in Seq(Video), Len(s) <= 1, NEW v \in Video, NEW x \in Video
  PROVE  (\E i \in DOMAIN Unparent(s, v) : Unparent(s, v)[i] = x) <=> (x # v /\ \E i \in DOMAIN s : s[i] = x)
<1>1. CASE s = << >>
  BY <1>1 DEF Unparent
<1>2. ASSUME NEW y \in Video, s = <<y>>
      PROVE  (\E i \in DOMAIN Unparent(s, v) : Unparent(s, v)[i] = x) <=> (x # v /\ \E i \in DOMAIN s : s[i] = x)
  <2>1. DOMAIN s = {1} /\ s[1] = y /\ Len(s) = 1
    BY <1>2
  <2>2. RemoveAt(s, 1) = << >>
    BY <2>1 DEF RemoveAt
  <2>3. CASE y = v
    <3>1. Unparent(s, v) = << >>
      BY <2>1, <2>2, <2>3 DEF Unparent
    <3> QED
      BY <2>1, <2>3, <3>1
  <2>4. CASE y # v
    <3>1. Unparent(s, v) = s
      BY <2>1, <2>4 DEF Unparent
    <3> QED
      BY <2>1, <2>4, <3>1
  <2> QED
    BY <2>3, <2>4
<1> QED
  BY <1>1, <1>2, ShortList

LEMMA ShowInHolds ==
  ASSUME NEW ch \in [Pane -> Seq(Video)], \A q \in Pane : Len(ch[q]) <= 1,
         NEW p \in Pane, NEW v \in Video, NEW q \in Pane, NEW x \in Video
  PROVE  Holds(ShowIn(ch, p, v), q, x) <=> IF q = p THEN x = v ELSE x # v /\ Holds(ch, q, x)
<1>1. CASE q # p
  <2>1. ShowIn(ch, p, v)[q] = Unparent(ch[q], v)
    BY <1>1 DEF ShowIn
  <2>2. PICK s \in Seq(Video) : s = ch[q] /\ Len(s) <= 1
    OBVIOUS
  <2> QED
    BY <1>1, <2>1, <2>2, UnparentHolds DEF Holds
<1>2. CASE q = p
  <2>1. ShowIn(ch, p, v)[p] = Append(Unparent(Skipped(ch[p]), v), v)
    BY DEF ShowIn
  <2>2. Skipped(ch[p]) = << >>
    BY SkippedShort
  <2>3. Unparent(<< >>, v) = << >>
    BY DEF Unparent
  <2>4. Append(<< >>, v) = <<v>>
    OBVIOUS
  <2>5. ShowIn(ch, p, v)[q] = <<v>>
    BY <1>2, <2>1, <2>2, <2>3, <2>4
  <2>6. DOMAIN <<v>> = {1} /\ <<v>>[1] = v
    OBVIOUS
  <2> QED
    BY <1>2, <2>5, <2>6 DEF Holds
<1> QED
  BY <1>1, <1>2

\* Taking a quad makes it the last one.
LEMMA TurnsAdvance ==
  ASSUME NEW n \in 0..3, NEW q \in Quads
  PROVE  /\ correctQuad(n) \in Quads /\ Turn(n, correctQuad(n)) = 1
         /\ NextQuad(n) \in 0..3
         /\ q # correctQuad(n) => Turn(n, q) > 1 /\ Turn(NextQuad(n), q) = Turn(n, q) - 1
         /\ Turn(NextQuad(n), correctQuad(n)) = 4 /\ Turn(n, q) \in 1..4
BY DEF correctQuad, NextQuad, Turn, Quads

\* A video that is placed in the quad whose turn it is, and was in none.
LEMMA PlacedInTurn ==
  ASSUME NEW ch \in [Pane -> Seq(Video)], \A q \in Pane : Len(ch[q]) <= 1, NEW n \in 0..3, NEW before,
         NEW v \in Video, NEW new, new = ShowIn(ch, correctQuad(n), v), InTurn(ch, n, before)
  PROVE  InTurn(new, NextQuad(n), Placed(new, before, v))
<1>0. 1 \in Quads /\ Quads \subseteq Pane
  BY DEF Quads, Pane
<1>1. PICK m \in Quads : m = correctQuad(n)
  BY <1>0, TurnsAdvance
<1>2. \A q \in Quads, x \in Video : Holds(new, q, x) <=> IF q = m THEN x = v ELSE x # v /\ Holds(ch, q, x)
  <2> SUFFICES ASSUME NEW q \in Quads, NEW x \in Video
               PROVE  Holds(new, q, x) <=> IF q = m THEN x = v ELSE x # v /\ Holds(ch, q, x)
    OBVIOUS
  <2>1. q \in Pane /\ m \in Pane /\ new = ShowIn(ch, m, v)
    BY <1>0, <1>1
  <2> QED
    BY <2>1, ShowInHolds
<1>3. ASSUME NEW x \in Video, NEW p \in Quads, NEW q \in Quads, Holds(new, p, x), Holds(new, q, x)
      PROVE  p = q
  BY <1>2, <1>3 DEF InTurn
<1>4. ASSUME NEW u \in Video, NEW w \in Video, NEW p \in Quads, NEW q \in Quads,
             Holds(new, p, u), Holds(new, q, w), Turn(NextQuad(n), p) < Turn(NextQuad(n), q)
      PROVE  <<u, w>> \in Placed(new, before, v)
  <2>1. p # m
    BY <1>1, <1>4, TurnsAdvance
  <2>2. u # v /\ Holds(ch, p, u) /\ u \in InQuads(new) \ {v}
    BY <1>2, <1>4, <2>1 DEF InQuads, Holds
  <2>3. CASE q = m
    <3>1. w = v
      BY <1>2, <1>4, <2>3
    <3> QED
      BY <2>2, <3>1 DEF Placed
  <2>4. CASE q # m
    <3>1. w # v /\ Holds(ch, q, w) /\ w \in InQuads(new) \ {v}
      BY <1>2, <1>4, <2>4 DEF InQuads, Holds
    <3>2. Turn(n, p) < Turn(n, q)
      BY <1>1, <1>4, <2>1, <2>4, TurnsAdvance
    <3>3. <<u, w>> \in before
      BY <2>2, <3>1, <3>2 DEF InTurn
    <3> QED
      BY <2>2, <3>1, <3>3 DEF Placed
  <2> QED
    BY <2>3, <2>4
<1> QED
  BY <1>3, <1>4 DEF InTurn

LEMMA TurnStart == Init => TakenInTurn
BY DEF Init, TakenInTurn, InTurn, Holds, Pane, Quads

LEMMA ClickInTurn ==
  ASSUME PageInv, TakenInTurn, NEW v \in Video, videoClicked(v)
  PROVE  TakenInTurn'
<1>1. /\ children \in [Pane -> Seq(Video)] /\ quadVideoNumber \in 0..3
      /\ \A q \in Pane : Len(children[q]) <= 1
  BY DEF PageInv, TypeOK, OneVideoPerPane
<1>2. CASE ClickInMain(v)
  <2>1. /\ visible = "main" /\ children' = ShowIn(children, mainVideo, v)
        /\ UNCHANGED <<quadVideoNumber, placedBefore>>
    BY <1>2 DEF ClickInMain
  <2>2. \A q \in Quads, x \in Video : Holds(children', q, x) => Holds(children, q, x)
    <3> SUFFICES ASSUME NEW q \in Quads, NEW x \in Video, Holds(children', q, x) PROVE Holds(children, q, x)
      OBVIOUS
    <3>1. q \in Pane /\ mainVideo \in Pane /\ q # mainVideo
      BY DEF Pane, Quads, mainVideo
    <3> QED
      BY <1>1, <2>1, <3>1, ShowInHolds
  <2> QED
    BY <2>1, <2>2 DEF TakenInTurn, InTurn
<1>3. CASE ClickInQuad(v)
  <2>1. /\ children' = ShowIn(children, correctQuad(quadVideoNumber), v)
        /\ quadVideoNumber' = NextQuad(quadVideoNumber)
        /\ placedBefore' = Placed(children', placedBefore, v)
    BY <1>3 DEF ClickInQuad
  <2>2. PICK new : new = children'
    OBVIOUS
  <2> QED
    BY <1>1, <2>1, <2>2, PlacedInTurn DEF TakenInTurn
<1> QED
  BY <1>2, <1>3 DEF videoClicked

LEMMA MultiInTurn ==
  ASSUME PageInv, TakenInTurn, onMultiClicked
  PROVE  TakenInTurn'
<1>1. /\ children \in [Pane -> Seq(Video)] /\ quadVideoNumber \in 0..3
      /\ \A q \in Pane : Len(children[q]) <= 1
  BY DEF PageInv, TypeOK, OneVideoPerPane
<1>2. PICK emptied : emptied = [children EXCEPT ![mainVideo] = Skipped(@)]
  OBVIOUS
<1>3. /\ emptied \in [Pane -> Seq(Video)] /\ \A q \in Pane : Len(emptied[q]) <= 1
      /\ \A q \in Quads : emptied[q] = children[q]
  <2>1. mainVideo \in Pane /\ mainVideo \notin Quads /\ Quads \subseteq Pane
    BY DEF Pane, Quads, mainVideo
  <2>2. Skipped(children[mainVideo]) = << >>
    BY <1>1, <2>1, SkippedShort
  <2>3. << >> \in Seq(Video) /\ Len(<< >>) <= 1
    OBVIOUS
  <2> QED
    BY <1>1, <1>2, <2>1, <2>2, <2>3
<1>4. \A q \in Quads, x \in Video : Holds(emptied, q, x) <=> Holds(children, q, x)
  BY <1>3 DEF Holds
<1>5. PICK last : last = LastMoved(children[mainVideo])
  OBVIOUS
<1>6. CASE last = << >>
  <2>1. children' = emptied /\ UNCHANGED <<quadVideoNumber, placedBefore>>
    BY <1>2, <1>5, <1>6 DEF onMultiClicked
  <2> QED
    BY <1>4, <2>1 DEF TakenInTurn, InTurn
<1>7. CASE last # << >>
  <2>1. PICK v \in Video : v = last[1]
    <3>1. mainVideo \in Pane
      BY DEF Pane
    <3> QED
      BY <1>1, <1>5, <1>7, <3>1, LastMovedShort
  <2>2. /\ children' = ShowIn(emptied, correctQuad(quadVideoNumber), v)
        /\ quadVideoNumber' = NextQuad(quadVideoNumber)
        /\ placedBefore' = Placed(children', placedBefore, v)
    BY <1>2, <1>5, <1>7, <2>1 DEF onMultiClicked
  <2>3. PICK new : new = children'
    OBVIOUS
  <2>4. InTurn(emptied, quadVideoNumber, placedBefore)
    BY <1>4 DEF TakenInTurn, InTurn
  <2> QED
    BY <1>1, <1>3, <2>2, <2>3, <2>4, PlacedInTurn DEF TakenInTurn
<1> QED
  BY <1>6, <1>7

LEMMA ReapInTurn ==
  ASSUME PageInv, TakenInTurn, NEW v \in Video, DeferredDelete(v)
  PROVE  TakenInTurn' /\ \A q \in Quads, x \in Video : Holds(children', q, x) <=> x # v /\ Holds(children, q, x)
<1>1. children \in [Pane -> Seq(Video)] /\ \A q \in Pane : Len(children[q]) <= 1
  BY DEF PageInv, TypeOK, OneVideoPerPane
<1>2. \A q \in Quads, x \in Video : Holds(children', q, x) <=> x # v /\ Holds(children, q, x)
  <2> SUFFICES ASSUME NEW q \in Quads, NEW x \in Video
               PROVE  Holds(children', q, x) <=> x # v /\ Holds(children, q, x)
    OBVIOUS
  <2>1. q \in Pane /\ children'[q] = Unparent(children[q], v)
    BY DEF DeferredDelete, Pane
  <2>2. PICK s \in Seq(Video) : s = children[q] /\ Len(s) <= 1
    BY <1>1, <2>1
  <2> QED
    BY <2>1, <2>2, UnparentHolds DEF Holds
<1>3. placedBefore' = placedBefore \cap ((Video \ {v}) \X (Video \ {v})) /\ quadVideoNumber' = quadVideoNumber
  BY DEF DeferredDelete
<1> QED
  BY <1>2, <1>3 DEF TakenInTurn, InTurn

LEMMA StepInTurn ==
  ASSUME PageInv, PageInv', TakenInTurn, [Next]_formVars
  PROVE  TakenInTurn'
<1>1. CASE onSingleClicked
  <2>1. \A q \in Quads : children'[q] = << >>
    <3>1. visible' = "main"
      BY <1>1 DEF onSingleClicked
    <3> QED
      BY <3>1 DEF PageInv, HiddenPanesEmpty, VisiblePanes, Pane, mainVideo, Quads
  <2> QED
    BY <2>1 DEF TakenInTurn, InTurn, Holds
<1>2. CASE UNCHANGED <<children, quadVideoNumber, placedBefore>>
  BY <1>2 DEF TakenInTurn, InTurn
<1>3. ASSUME NEW n \in Name, onRpiVideoSenderRtspFound(n) \/ onRpiVideoSenderRtspWentAway(n)
      PROVE  UNCHANGED <<children, quadVideoNumber, placedBefore>>
  BY <1>3 DEF onRpiVideoSenderRtspFound, onRpiVideoSenderRtspWentAway
<1> QED
  BY <1>1, <1>2, <1>3, ClickInTurn, MultiInTurn, ReapInTurn DEF Next, UserStep, Reap, formVars

\* What a step of the page may take out of the quads
Replacing ==
  \A w \in Video :
    (/\ visible = "quad" /\ visible' = "quad"
     /\ \E q \in Quads : IsIn(w, q)
     /\ w \in alive'
     /\ \A q \in Quads : ~IsIn(w, q)')
    => \A u \in InQuads(children) \ {w} : <<w, u>> \in placedBefore

LEMMA StepReplaces ==
  ASSUME PageInv, TakenInTurn, [Next]_formVars
  PROVE  Replacing
<1> SUFFICES ASSUME NEW w \in Video, visible = "quad", visible' = "quad", w \in alive',
                    NEW a \in Quads, Holds(children, a, w), \A q \in Quads : ~Holds(children', q, w),
                    NEW u \in InQuads(children) \ {w}
             PROVE  <<w, u>> \in placedBefore
  BY DEF Replacing, IsIn, Holds
<1>0. /\ children \in [Pane -> Seq(Video)] /\ quadVideoNumber \in 0..3
      /\ \A q \in Pane : Len(children[q]) <= 1
  BY DEF PageInv, TypeOK, OneVideoPerPane
<1>1. ASSUME NEW v \in Video, videoClicked(v) PROVE <<w, u>> \in placedBefore
  <2>1. children' = ShowIn(children, correctQuad(quadVideoNumber), v)
    BY <1>1 DEF videoClicked, ClickInMain, ClickInQuad
  <2>2. PICK m \in Quads : m = correctQuad(quadVideoNumber) /\ m \in Pane
    BY <1>0, TurnsAdvance DEF Pane
  <2>3. a \in Pane /\ \A q \in Quads : ~Holds(children, q, v)
    BY <1>1 DEF videoClicked, ClickInMain, ClickInQuad, IsIn, Holds, Pane
  <2>4. w # v
    BY <2>3
  <2>5. a = m
    BY <1>0, <2>1, <2>2, <2>3, <2>4, ShowInHolds
  <2>6. PICK b \in Quads : Holds(children, b, u) /\ u \in Video
    BY DEF InQuads, Holds
  <2>7. b # a
    <3>1. PICK s \in Seq(Video) : s = children[a] /\ Len(s) <= 1
      BY <1>0, <2>3
    <3>2. s = << >> \/ \E x \in Video : s = <<x>>
      BY <3>1, ShortList
    <3>3. \A i, j \in DOMAIN s : s[i] = s[j]
      BY <3>2
    <3> QED
      BY <2>6, <3>1, <3>3 DEF Holds
  <2>8. Turn(quadVideoNumber, a) < Turn(quadVideoNumber, b)
    BY <1>0, <2>2, <2>5, <2>7, TurnsAdvance
  <2> QED
    BY <2>6, <2>8 DEF TakenInTurn, InTurn
<1>2. CASE onMultiClicked \/ onSingleClicked
  BY <1>2 DEF onMultiClicked, onSingleClicked
<1>3. ASSUME NEW v \in Video, DeferredDelete(v) PROVE FALSE
  <2>1. w # v
    BY <1>3 DEF DeferredDelete
  <2> QED
    BY <1>3, <2>1, ReapInTurn
<1>4. CASE UNCHANGED children
  BY <1>4 DEF Holds
<1>5. ASSUME NEW n \in Name, onRpiVideoSenderRtspFound(n) \/ onRpiVideoSenderRtspWentAway(n)
      PROVE  UNCHANGED children
  BY <1>5 DEF onRpiVideoSenderRtspFound, onRpiVideoSenderRtspWentAway
<1> QED
  BY <1>1, <1>2, <1>3, <1>4, <1>5 DEF Next, UserStep, Reap, formVars

\* Wherever videos are destroyed in between, and whatever the user did before: a clicked
\* video replaces the one that has been in the quads for the longest time.
THEOREM OldestIsReplaced == Spec => ReplacesOldest
<1>1. Spec => [](PageInv /\ TakenInTurn)
  <2>1. PageInv /\ TakenInTurn /\ [Next]_formVars => (PageInv /\ TakenInTurn)'
    BY StepPage, StepInTurn
  <2> QED
    BY InitPage, TurnStart, <2>1, PTL DEF Spec
<1>2. PageInv /\ TakenInTurn /\ [Next]_formVars => [Replacing]_formVars
  BY StepReplaces
<1>3. Spec => [][Replacing]_formVars
  BY <1>1, <1>2, PTL DEF Spec
<1>4. [Replacing]_formVars <=> [\A w \in Video :
       (/\ visible = "quad" /\ visible' = "quad"
        /\ \E q \in Quads : IsIn(w, q)
        /\ w \in alive'
        /\ \A q \in Quads : ~IsIn(w, q)')
       => \A u \in InQuads(children) \ {w} : <<w, u>> \in placedBefore]_formVars
  BY Zenon DEF Replacing
<1> QED
  BY <1>3, <1>4, PTL DEF ReplacesOldest

-----------------------------------------------------------------------------
(* The list of senders.                                                    *)

Losing == INSTANCE FoldProofs WITH Op <- Keep

\* How often x is in the first k of a list
Count(s, k, x) == Cardinality({i \in 1..k : s[i] = x})

LEMMA CountNext ==
  ASSUME NEW s, NEW k \in Nat, NEW x
  PROVE  /\ Count(s, k, x) \in Nat
         /\ Count(s, k + 1, x) = IF s[k + 1] = x THEN Count(s, k, x) + 1 ELSE Count(s, k, x)
<1> DEFINE C == {i \in 1..k : s[i] = x}
<1>1. IsFiniteSet(1..k)
  BY FS_Interval
<1>2. IsFiniteSet(C) /\ Cardinality(C) \in Nat
  BY <1>1, FS_Subset, FS_CardinalityType
<1>3. CASE s[k + 1] = x
  <2>1. {i \in 1..(k + 1) : s[i] = x} = C \cup {k + 1} /\ k + 1 \notin C
    BY <1>3
  <2> QED
    BY <1>2, <1>3, <2>1, FS_AddElement DEF Count
<1>4. CASE s[k + 1] # x
  <2>1. {i \in 1..(k + 1) : s[i] = x} = C
    BY <1>4
  <2> QED
    BY <1>2, <1>4, <2>1 DEF Count
<1> QED
  BY <1>2, <1>3, <1>4 DEF Count

LEMMA CountAppend ==
  ASSUME NEW S, NEW s \in Seq(S), NEW y \in S, NEW x
  PROVE  LET a == Append(s, y)
         IN /\ Count(s, Len(s), x) \in Nat
            /\ Count(a, Len(a), x) = IF y = x THEN Count(s, Len(s), x) + 1
                                    ELSE Count(s, Len(s), x)
<1> DEFINE a == Append(s, y)
           n == Len(s)
<1>1. /\ n \in Nat /\ Len(a) = n + 1 /\ a[n + 1] = y
      /\ \A i \in 1..n : a[i] = s[i]
  OBVIOUS
<1> HIDE DEF a, n
<1>2. Count(a, n, x) = Count(s, n, x)
  <2>1. {i \in 1..n : a[i] = x} = {i \in 1..n : s[i] = x}
    BY <1>1
  <2> QED
    BY <2>1, Zenon DEF Count
<1>3. Count(s, n, x) \in Nat
  BY <1>1, CountNext
<1>4. Count(a, n + 1, x) = IF y = x THEN Count(a, n, x) + 1 ELSE Count(a, n, x)
  BY <1>1, CountNext
<1> QED
  BY <1>1, <1>2, <1>3, <1>4 DEF a, n

\* What the loop of lostRPIVideoSender leaves
Kept(name, senders) == FoldLeft(LAMBDA stays, s : Keep(name, stays, s), << >>, senders)

\* The loop keeps the other senders, each as often as before.
LEMMA LosingCounts ==
  ASSUME NEW senders \in Seq(Sender), NEW name, NEW x \in Sender
  PROVE  LET stays == Kept(name, senders)
         IN /\ stays \in Seq(Sender)
            /\ Count(stays, Len(stays), x) = IF x.name = name THEN 0
                                          ELSE Count(senders, Len(senders), x)
<1> DEFINE n == Len(senders)
           stays == Kept(name, senders)
<1>1. n \in Nat /\ DOMAIN senders = 1..n /\ \A i \in 1..n : senders[i] \in Sender
  OBVIOUS
<1>2. stays = Losing!Folded(name, << >>, senders)
  BY DEF Kept, FoldLeft, MapThenFoldSet, Max, Losing!Folded, Losing!FoldLeft,
         Losing!MapThenFoldSet, Losing!Max
<1> HIDE DEF n, stays
<1>3. PICK g : Losing!Rounds(g, name, n, << >>, senders)
  BY <1>1, Losing!FoldTrace
<1>4. /\ g[0] = << >>
      /\ \A k \in 1..n : g[k] = Keep(name, g[k - 1], senders[k])
      /\ stays = g[n]
  BY <1>2, <1>3 DEF Losing!Rounds
<1> DEFINE Good(k) == /\ g[k] \in Seq(Sender)
                      /\ Count(g[k], Len(g[k]), x) = IF x.name = name THEN 0
                                                    ELSE Count(senders, k, x)
           Bad == {k \in 0..n : ~Good(k)}
<1>5. Good(0)
  <2>1. << >> \in Seq(Sender) /\ Len(<< >>) = 0 /\ 1..0 = {}
    OBVIOUS
  <2>2. \A s : Count(s, 0, x) = 0
    BY <2>1, FS_EmptySet DEF Count
  <2> QED
    BY <1>4, <2>1, <2>2
<1>6. ASSUME NEW k \in 1..n, Good(k - 1)
      PROVE  Good(k)
  <2> DEFINE b == g[k - 1]
             y == senders[k]
             c == Count(senders, k - 1, x)
  <2>1. y \in Sender /\ k - 1 \in Nat /\ (k - 1) + 1 = k
    BY <1>1
  <2>2. /\ b \in Seq(Sender)
        /\ Count(b, Len(b), x) = IF x.name = name THEN 0 ELSE c
    BY <1>6
  <2>3. g[k] = IF y.name = name THEN b ELSE Append(b, y)
    BY <1>4 DEF Keep
  <2>4. c \in Nat /\ Count(senders, k, x) = IF y = x THEN c + 1 ELSE c
    <3>1. /\ Count(senders, k - 1, x) \in Nat
          /\ Count(senders, (k - 1) + 1, x)
               = IF senders[(k - 1) + 1] = x THEN Count(senders, k - 1, x) + 1
                 ELSE Count(senders, k - 1, x)
      BY <2>1, CountNext
    <3> QED
      BY <2>1, <3>1
  <2> HIDE DEF b, y, c
  <2>5. CASE y.name = name
    BY <2>2, <2>3, <2>4, <2>5
  <2>6. CASE y.name # name
    <3> DEFINE a == Append(b, y)
    <3>1. a \in Seq(Sender)
      BY <2>1, <2>2
    <3>2. Count(a, Len(a), x) = IF y = x THEN Count(b, Len(b), x) + 1
                                ELSE Count(b, Len(b), x)
      BY <2>1, <2>2, CountAppend
    <3>3. g[k] = a
      BY <2>3, <2>6
    <3> HIDE DEF a
    <3> QED
      BY <2>2, <2>4, <2>6, <3>1, <3>2, <3>3
  <2> QED
    BY <2>5, <2>6
<1> HIDE DEF Good
<1>7. Good(n)
  <2> SUFFICES ASSUME ~Good(n) PROVE FALSE
    OBVIOUS
  <2>1. Bad # {} /\ Bad \in SUBSET Nat
    BY <1>1
  <2>2. PICK k \in Bad : \A m \in Bad : ~(m < k)
    BY <2>1, Losing!LeastNat
  <2>3. k \in 1..n /\ k - 1 \in 0..n /\ k - 1 < k
    BY <1>1, <1>5, <2>2
  <2>4. Good(k - 1)
    BY <2>2, <2>3
  <2> QED
    BY <1>6, <2>2, <2>3, <2>4
<1> QED
  BY <1>4, <1>7 DEF Good, n, stays
\* The senders that stream under name n, counted
RtspOf(n) == [name |-> n, rtsp |-> TRUE]

LEMMA RtspCount ==
  ASSUME NEW m \in Seq(Sender), NEW n
  PROVE  Cardinality({i \in DOMAIN m : m[i] = [name |-> n, rtsp |-> TRUE]})
           = Count(m, Len(m), RtspOf(n))
<1>1. DOMAIN m = 1..Len(m)
  OBVIOUS
<1> QED
  BY <1>1, Zenon DEF Count, RtspOf

-----------------------------------------------------------------------------
(* What the steps of the page do to the live videos.                       *)

\* A found sender gets one new video.
LEMMA FoundLive ==
  ASSUME PageInv, IsFiniteSet(alive), NEW name \in Name, onRpiVideoSenderRtspFound(name),
         NEW n \in Name
  PROVE  /\ IsFiniteSet(alive')
         /\ Cardinality(LiveVideos(n)) \in Nat
         /\ Cardinality(LiveVideos(n)') = IF n = name THEN Cardinality(LiveVideos(n)) + 1
                                         ELSE Cardinality(LiveVideos(n))
         /\ n # name => LiveVideos(n)' = LiveVideos(n)
<1>1. PICK v \in Video \ alive :
        /\ alive' = alive \cup {v}
        /\ uniqueName' = [w \in alive' |-> IF w = v THEN name ELSE uniqueName[w]]
  BY DEF onRpiVideoSenderRtspFound
<1>2. dying' = dying /\ dying \subseteq alive
  BY DEF onRpiVideoSenderRtspFound, PageInv, TypeOK
<1>3. LiveVideos(n)' = IF n = name THEN LiveVideos(n) \cup {v} ELSE LiveVideos(n)
  BY <1>1, <1>2 DEF LiveVideos
<1>4. v \notin LiveVideos(n)
  BY <1>1 DEF LiveVideos
<1>5. IsFiniteSet(LiveVideos(n)) /\ Cardinality(LiveVideos(n)) \in Nat
  BY FS_Subset, FS_CardinalityType DEF LiveVideos
<1>6. IsFiniteSet(alive')
  BY <1>1, FS_AddElement
<1>7. Cardinality(LiveVideos(n) \cup {v}) = Cardinality(LiveVideos(n)) + 1
  BY <1>4, <1>5, FS_AddElement
<1> QED
  BY <1>3, <1>5, <1>6, <1>7

\* A lost sender has no video left; the others keep theirs.
LEMMA WentAwayLive ==
  ASSUME PageInv, NEW name \in Name, onRpiVideoSenderRtspWentAway(name), NEW n
  PROVE  /\ alive' = alive
         /\ LiveVideos(n)' = IF n = name THEN {} ELSE LiveVideos(n)
<1>1. \A v \in alive, p \in Pane \ VisiblePanes : ~IsIn(v, p)
  BY DEF PageInv, HiddenPanesEmpty, IsIn
<1>2. /\ alive' = alive /\ uniqueName' = uniqueName
      /\ dying' = dying \cup {v \in alive : uniqueName[v] = name}
  BY <1>1 DEF onRpiVideoSenderRtspWentAway
<1> QED
  BY <1>2 DEF LiveVideos

\* Clicks and deferred deletions leave the live videos alone.
LEMMA PageStepLive ==
  ASSUME PageInv, UserStep \/ Reap, NEW n
  PROVE  alive' \subseteq alive /\ LiveVideos(n)' = LiveVideos(n)
<1>1. CASE UserStep
  <2>1. UNCHANGED <<alive, dying, uniqueName>>
    BY <1>1 DEF UserStep, videoClicked, onMultiClicked, onSingleClicked
  <2> QED
    BY <2>1 DEF LiveVideos
<1>2. ASSUME NEW v \in Video, DeferredDelete(v)
      PROVE  alive' \subseteq alive /\ LiveVideos(n)' = LiveVideos(n)
  <2>1. /\ v \in dying /\ dying \subseteq alive
        /\ alive' = alive \ {v} /\ dying' = dying \ {v}
        /\ uniqueName' = [w \in alive' |-> uniqueName[w]]
    BY <1>2 DEF DeferredDelete, PageInv, TypeOK
  <2>2. alive' \ dying' = alive \ dying
    BY <2>1
  <2>3. \A w \in alive' \ dying' : uniqueName'[w] = uniqueName[w]
    BY <2>1
  <2>4. LiveVideos(n)' = LiveVideos(n)
    BY <2>2, <2>3 DEF LiveVideos
  <2> QED
    BY <2>1, <2>4
<1> QED
  BY <1>1, <1>2 DEF Reap

\* No step of the page.
LEMMA NoPageStep ==
  ASSUME UNCHANGED formVars, NEW n
  PROVE  alive' = alive /\ LiveVideos(n)' = LiveVideos(n)
BY DEF formVars, LiveVideos

\* What foundRPIVideoSender adds to one of the two lists it adds to the other.
LEMMA FoundBoth ==
  ASSUME PageInv, IsFiniteSet(alive), m_resolvedVideoSenders \in Seq(Sender),
         NEW name \in Name, NEW rtsp \in BOOLEAN, foundRPIVideoSender(name, rtsp),
         NEW n \in Name
  PROVE  /\ m_resolvedVideoSenders' \in Seq(Sender)
         /\ IsFiniteSet(alive')
         /\ Cardinality(LiveVideos(n)) \in Nat /\ Cardinality(RtspSenders(n)) \in Nat
         /\ \E d \in {0, 1} :
              /\ Cardinality(LiveVideos(n)') = Cardinality(LiveVideos(n)) + d
              /\ Cardinality(RtspSenders(n)') = Cardinality(RtspSenders(n)) + d
         /\ n # name => LiveVideos(n)' = LiveVideos(n)
<1> DEFINE y == [name |-> name, rtsp |-> rtsp]
<1> PICK m : m = m_resolvedVideoSenders
  OBVIOUS
<1>1. y \in Sender /\ m \in Seq(Sender)
  BY DEF Sender
<1>2. m_resolvedVideoSenders' = Append(m, y)
  BY DEF foundRPIVideoSender
<1>3. y = RtspOf(n) <=> rtsp /\ n = name
  BY DEF RtspOf
<1> HIDE DEF y
<1> DEFINE a == Append(m, y)
           c == Count(m, Len(m), RtspOf(n))
<1>4. a \in Seq(Sender)
  BY <1>1
<1>5. c \in Nat /\ Count(a, Len(a), RtspOf(n)) = IF y = RtspOf(n) THEN c + 1 ELSE c
  BY <1>1, CountAppend
<1>6. Cardinality(RtspSenders(n)) = c
  BY <1>1, RtspCount DEF RtspSenders
<1>7. Cardinality(RtspSenders(n)') = Count(a, Len(a), RtspOf(n))
  <2>1. RtspSenders(n)' = {i \in DOMAIN a : a[i] = [name |-> n, rtsp |-> TRUE]}
    BY <1>2 DEF RtspSenders
  <2> HIDE DEF a
  <2> QED
    BY <1>4, <2>1, RtspCount
<1>8. IsFiniteSet(LiveVideos(n)) /\ Cardinality(LiveVideos(n)) \in Nat
  BY FS_Subset, FS_CardinalityType DEF LiveVideos
<1> HIDE DEF a, c
<1>9. CASE rtsp
  <2>1. onRpiVideoSenderRtspFound(name)
    BY <1>9 DEF foundRPIVideoSender
  <2>2. /\ IsFiniteSet(alive')
        /\ Cardinality(LiveVideos(n)') = IF n = name THEN Cardinality(LiveVideos(n)) + 1
                                        ELSE Cardinality(LiveVideos(n))
        /\ n # name => LiveVideos(n)' = LiveVideos(n)
    BY <2>1, FoundLive
  <2> QED
    BY <1>2, <1>3, <1>4, <1>5, <1>6, <1>7, <1>8, <1>9, <2>2 DEF a
<1>10. CASE ~rtsp
  <2>1. alive' = alive /\ LiveVideos(n)' = LiveVideos(n)
    BY <1>10, NoPageStep DEF foundRPIVideoSender
  <2> QED
    BY <1>2, <1>3, <1>4, <1>5, <1>6, <1>7, <1>8, <1>10, <2>1 DEF a
<1> QED
  BY <1>9, <1>10

-----------------------------------------------------------------------------
(* avahi-core inside the program.                                          *)

EmbeddedIInv ==
  /\ EmbeddedInv
  /\ backend = "EmbeddedAvahiBrowse"
  /\ PageInv
  /\ IsFiniteSet(alive)

\* Both backends drive the page by its own steps.
LEMMA EmbeddedDrives ==
  ASSUME EmbeddedTypeOK, [EmbeddedNext]_<<backend, embeddedVars>>
  PROVE  [Next]_formVars
<1>1. ASSUME NEW n \in Name, NEW l \in Link, BrowserRemove(n, l)
      PROVE  Next
  BY <1>1 DEF BrowserRemove, Next
<1>2. ASSUME NEW n \in Name, NEW l \in Link, ResolverFound(n, l)
      PROVE  [Next]_formVars
  BY <1>2 DEF ResolverFound, foundRPIVideoSender, Next
<1>3. ASSUME NEW n \in Name, NEW l \in Link,
             BrowserNew(n, l) \/ ResolverFoundInet6(n, l) \/ ResolverFailure(n, l)
      PROVE  UNCHANGED formVars
  BY <1>3 DEF BrowserNew, ResolverFoundInet6, ResolverFailure
<1>4. CASE PageStep
  BY <1>4 DEF PageStep, Next
<1>5. CASE UNCHANGED <<backend, embeddedVars>>
  BY <1>5 DEF embeddedVars
<1> QED
  BY <1>1, <1>2, <1>3, <1>4, <1>5 DEF EmbeddedNext

LEMMA EmbeddedFormIsSet ==
  ASSUME EmbeddedIInv, NEW n \in Name
  PROVE  /\ Cardinality(LiveVideos(n)) \in Nat /\ Cardinality(RtspSenders(n)) \in Nat
         /\ Cardinality(LiveVideos(n)) <= Cardinality(RtspSenders(n))
<1>1. IsFiniteSet(LiveVideos(n)) /\ Cardinality(LiveVideos(n)) \in Nat
  BY FS_Subset, FS_CardinalityType DEF LiveVideos, EmbeddedIInv
<1>2. Cardinality(RtspSenders(n)) \in Nat
  <2>1. Len(m_resolvedVideoSenders) \in Nat
        /\ DOMAIN m_resolvedVideoSenders = 1..Len(m_resolvedVideoSenders)
    BY DEF EmbeddedIInv, EmbeddedInv, EmbeddedTypeOK, DiscoverTypeOK
  <2>2. IsFiniteSet(DOMAIN m_resolvedVideoSenders)
    BY <2>1, FS_Interval
  <2> QED
    BY <2>2, FS_Subset, FS_CardinalityType DEF RtspSenders
<1> QED
  BY <1>1, <1>2 DEF EmbeddedIInv, EmbeddedInv, VideosHaveSenders

\* What a step must leave behind for the page to be in order afterwards
LEMMA EmbeddedKept ==
  ASSUME EmbeddedIInv, [EmbeddedNext]_<<backend, embeddedVars>>,
         m_resolvedVideoSenders' \in Seq(Sender), up' \subseteq Service, late' \subseteq Name,
         resolvers' \in [Service -> 0..MaxResolvers], IsFiniteSet(alive'),
         \A n \in Name : /\ Cardinality(LiveVideos(n)') <= Cardinality(RtspSenders(n)')
                         /\ n \notin late' /\ LiveVideos(n)' # {} => IsUp(n)'
  PROVE  EmbeddedIInv'
<1>1. PageInv'
  BY StepPage, EmbeddedDrives DEF EmbeddedIInv, EmbeddedInv
<1>2. backend' = backend
  BY DEF EmbeddedNext
<1>3. EmbeddedTypeOK'
  BY <1>1, <1>2 DEF EmbeddedIInv, EmbeddedTypeOK, DiscoverTypeOK, PageInv, createServiceDiscover
<1>4. VideosHaveSenders' /\ NoGhostVideos'
  BY DEF VideosHaveSenders, NoGhostVideos
<1> QED
  BY <1>1, <1>2, <1>3, <1>4 DEF EmbeddedIInv, EmbeddedInv

LEMMA EmbeddedStep == EmbeddedIInv /\ [EmbeddedNext]_<<backend, embeddedVars>> => EmbeddedIInv'
<1> SUFFICES ASSUME EmbeddedIInv, [EmbeddedNext]_<<backend, embeddedVars>> PROVE EmbeddedIInv'
  OBVIOUS
<1>1. /\ PageInv /\ IsFiniteSet(alive)
      /\ m_resolvedVideoSenders \in Seq(Sender) /\ up \subseteq Service /\ late \subseteq Name
      /\ resolvers \in [Service -> 0..MaxResolvers]
      /\ \A n \in Name : n \notin late /\ LiveVideos(n) # {} => IsUp(n)
  BY DEF EmbeddedIInv, EmbeddedInv, EmbeddedTypeOK, DiscoverTypeOK, NoGhostVideos
<1>2. ASSUME UNCHANGED m_resolvedVideoSenders, UNCHANGED late,
             resolvers' \in [Service -> 0..MaxResolvers],
             up' \subseteq Service, alive' \subseteq alive,
             \A n \in Name : /\ LiveVideos(n)' = LiveVideos(n) \/ LiveVideos(n)' = {}
                             /\ LiveVideos(n)' # {} /\ IsUp(n) => IsUp(n)'
      PROVE  EmbeddedIInv'
  <2>1. IsFiniteSet(alive')
    BY <1>1, <1>2, FS_Subset
  <2>2. ASSUME NEW n \in Name
        PROVE  Cardinality(LiveVideos(n)') <= Cardinality(RtspSenders(n)')
    <3>1. RtspSenders(n)' = RtspSenders(n)
      BY <1>2 DEF RtspSenders
    <3>2. Cardinality({}) = 0
      BY FS_EmptySet
    <3> QED
      BY <1>2, <3>1, <3>2, EmbeddedFormIsSet
  <2> QED
    BY <1>1, <1>2, <2>1, <2>2, EmbeddedKept
\* A resolver of the service is gone.
<1>3. ASSUME NEW n \in Name, NEW l \in Link, Freed(n, l)
      PROVE  resolvers' \in [Service -> 0..MaxResolvers]
  <2>1. <<n, l>> \in Service
    BY DEF Service
  <2>2. resolvers[<<n, l>>] \in 0..MaxResolvers /\ resolvers[<<n, l>>] > 0
    BY <1>1, <1>3, <2>1 DEF Freed
  <2>3. resolvers[<<n, l>>] - 1 \in 0..MaxResolvers
    BY <2>2, EmbeddedAssumption
  <2> QED
    BY <1>1, <1>3, <2>1, <2>3 DEF Freed
<1>4. ASSUME NEW n \in Name, NEW l \in Link, BrowserNew(n, l)
      PROVE  EmbeddedIInv'
  <2>1. <<n, l>> \in Service
    BY DEF Service
  <2>2. resolvers[<<n, l>>] \in 0..MaxResolvers /\ resolvers[<<n, l>>] < MaxResolvers
    BY <1>1, <1>4, <2>1 DEF BrowserNew
  <2>3. resolvers[<<n, l>>] + 1 \in 0..MaxResolvers
    BY <2>2, EmbeddedAssumption
  <2>4. resolvers' \in [Service -> 0..MaxResolvers] /\ up' \subseteq Service
    BY <1>1, <1>4, <2>1, <2>3 DEF BrowserNew
  <2>5. \A m \in Name : alive' = alive /\ LiveVideos(m)' = LiveVideos(m)
    BY <1>4, NoPageStep DEF BrowserNew
  <2>6. \A m \in Name : IsUp(m) => IsUp(m)'
    BY <1>4 DEF BrowserNew, IsUp
  <2>7. alive' \subseteq alive
    BY <1>4 DEF BrowserNew, formVars
  <2> QED
    BY <1>2, <1>4, <2>4, <2>5, <2>6, <2>7 DEF BrowserNew
<1>5. ASSUME NEW n \in Name, NEW l \in Link, BrowserRemove(n, l)
      PROVE  EmbeddedIInv'
  <2>1. \A m \in Name : LiveVideos(m)' = IF m = n THEN {} ELSE LiveVideos(m)
    BY <1>1, <1>5, WentAwayLive DEF BrowserRemove
  <2>2. \A m \in Name \ {n} : IsUp(m) => IsUp(m)'
    BY <1>5 DEF BrowserRemove, IsUp
  <2>3. alive' = alive /\ up' \subseteq Service
    BY <1>1, <1>5 DEF BrowserRemove, onRpiVideoSenderRtspWentAway
  <2> QED
    BY <1>1, <1>2, <1>5, <2>1, <2>2, <2>3 DEF BrowserRemove
<1>6. ASSUME NEW n \in Name, NEW l \in Link, ResolverFound(n, l)
      PROVE  EmbeddedIInv'
  <2> PICK rtsp \in BOOLEAN : foundRPIVideoSender(n, rtsp)
    BY <1>6 DEF ResolverFound
  <2>1. /\ m_resolvedVideoSenders' \in Seq(Sender)
        /\ IsFiniteSet(alive')
    BY <1>1, FoundBoth
  <2>2. resolvers' \in [Service -> 0..MaxResolvers]
    BY <1>3, <1>6 DEF ResolverFound
  <2>3. /\ up' = up
        /\ late' = IF <<n, l>> \in up THEN late ELSE late \cup {n}
    BY <1>6 DEF ResolverFound, Answered
  <2>4. ASSUME NEW m \in Name
        PROVE  Cardinality(LiveVideos(m)') <= Cardinality(RtspSenders(m)')
    <3>1. /\ Cardinality(LiveVideos(m)) \in Nat /\ Cardinality(RtspSenders(m)) \in Nat
          /\ \E d \in {0, 1} :
               /\ Cardinality(LiveVideos(m)') = Cardinality(LiveVideos(m)) + d
               /\ Cardinality(RtspSenders(m)') = Cardinality(RtspSenders(m)) + d
      BY <1>1, FoundBoth
    <3>2. Cardinality(LiveVideos(m)) <= Cardinality(RtspSenders(m))
      BY EmbeddedFormIsSet
    <3> QED
      BY <3>1, <3>2
  <2>5. ASSUME NEW m \in Name, m \notin late', LiveVideos(m)' # {}
        PROVE  IsUp(m)'
    <3>1. CASE m = n
      BY <2>3, <2>5, <3>1 DEF IsUp
    <3>2. CASE m # n
      <4>1. LiveVideos(m)' = LiveVideos(m)
        BY <1>1, <3>2, FoundBoth
      <4> QED
        BY <1>1, <2>3, <2>5, <4>1 DEF IsUp
    <3> QED
      BY <3>1, <3>2
  <2> QED
    BY <1>1, <2>1, <2>2, <2>3, <2>4, <2>5, EmbeddedKept
<1>7. ASSUME NEW n \in Name, NEW l \in Link,
             ResolverFoundInet6(n, l) \/ ResolverFailure(n, l)
      PROVE  EmbeddedIInv'
  <2>1. /\ UNCHANGED formVars /\ UNCHANGED <<m_resolvedVideoSenders, up, late>>
        /\ Freed(n, l)
    BY <1>7 DEF ResolverFoundInet6, ResolverFailure, discoverVars
  <2>2. \A m \in Name : LiveVideos(m)' = LiveVideos(m)
    BY <2>1, NoPageStep
  <2>3. alive' \subseteq alive
    BY <2>1 DEF formVars
  <2> QED
    BY <1>1, <1>2, <1>3, <2>1, <2>2, <2>3 DEF IsUp
<1>8. ASSUME PageStep, UNCHANGED resolvers
      PROVE  EmbeddedIInv'
  <2>1. \A m \in Name : LiveVideos(m)' = LiveVideos(m)
    BY <1>1, <1>8, PageStepLive DEF PageStep
  <2>2. alive' \subseteq alive
    BY <1>1, <1>8, PageStepLive DEF PageStep
  <2> QED
    BY <1>1, <1>2, <1>8, <2>1, <2>2 DEF PageStep, discoverVars, IsUp
<1>9. ASSUME UNCHANGED <<backend, embeddedVars>>
      PROVE  EmbeddedIInv'
  <2>1. UNCHANGED formVars /\ UNCHANGED <<m_resolvedVideoSenders, up, late, resolvers>>
    BY <1>9 DEF embeddedVars, discoverVars
  <2>2. \A m \in Name : LiveVideos(m)' = LiveVideos(m)
    BY <2>1, NoPageStep
  <2>3. alive' \subseteq alive
    BY <2>1 DEF formVars
  <2> QED
    BY <1>1, <1>2, <2>1, <2>2, <2>3 DEF IsUp
<1> QED
  BY <1>4, <1>5, <1>6, <1>7, <1>8, <1>9 DEF EmbeddedNext

LEMMA EmbeddedStart == EmbeddedInit /\ backend = "EmbeddedAvahiBrowse" => EmbeddedIInv
<1> SUFFICES ASSUME EmbeddedInit, backend = "EmbeddedAvahiBrowse" PROVE EmbeddedIInv
  OBVIOUS
<1>1. PageInv
  BY InitPage DEF EmbeddedInit, DiscoverInit
<1>2. IsFiniteSet(alive) /\ Cardinality({}) = 0
  BY FS_EmptySet DEF EmbeddedInit, DiscoverInit, Init
<1>3. \A n \in Name : LiveVideos(n) = {} /\ RtspSenders(n) = {}
  BY DEF EmbeddedInit, DiscoverInit, Init, LiveVideos, RtspSenders
<1>4. EmbeddedTypeOK
  BY <1>1, EmbeddedAssumption
  DEF EmbeddedTypeOK, DiscoverTypeOK, PageInv, EmbeddedInit, DiscoverInit, createServiceDiscover
<1>5. VideosHaveSenders /\ NoGhostVideos
  BY <1>2, <1>3 DEF VideosHaveSenders, NoGhostVideos
<1> QED
  BY <1>1, <1>2, <1>4, <1>5 DEF EmbeddedIInv, EmbeddedInv

\* With avahi-core in the program every live video has its sender, and a live video of a
\* camera that left is there only because records outlived the service, although REMOVE
\* stops no resolver (videosender_browse_cb, videosender_resolve_cb).
THEOREM NoGhosts == EmbeddedSpec => []EmbeddedInv
<1>1. EmbeddedIInv => EmbeddedInv
  BY DEF EmbeddedIInv
<1> QED
  BY <1>1, EmbeddedStart, EmbeddedStep, PTL DEF EmbeddedSpec

\* With avahi-core in the program the video page behaves as module VideoForm says: the
\* callbacks drive it by its own handlers and nothing else.
THEOREM EmbeddedDrivesPage == EmbeddedSpec => Spec
<1>1. EmbeddedInit => Init
  BY DEF EmbeddedInit, DiscoverInit
<1>2. EmbeddedIInv /\ [EmbeddedNext]_<<backend, embeddedVars>> => [Next]_formVars
  BY EmbeddedDrives DEF EmbeddedIInv, EmbeddedInv
<1> QED
  BY <1>1, <1>2, EmbeddedStart, EmbeddedStep, PTL DEF EmbeddedSpec, Spec

-----------------------------------------------------------------------------
(* The client of the daemon.                                               *)

BrowseIInv ==
  /\ BrowseInv
  /\ backend = "AvahiBrowse"
  /\ PageInv
  /\ IsFiniteSet(alive)

\* What lostRPIVideoSender takes from one of the two lists it takes from the other.
LEMMA LostBoth ==
  ASSUME PageInv, m_resolvedVideoSenders \in Seq(Sender),
         NEW name \in Name, lostRPIVideoSender(name),
         NEW n \in Name, Cardinality(LiveVideos(n)) = Cardinality(RtspSenders(n)),
         IsFiniteSet(alive)
  PROVE  /\ m_resolvedVideoSenders' \in Seq(Sender)
         /\ alive' = alive
         /\ Cardinality(LiveVideos(n)') = Cardinality(RtspSenders(n)')
<1> PICK m : m = m_resolvedVideoSenders
  OBVIOUS
<1> DEFINE stays == Kept(name, m)
<1>1. m \in Seq(Sender) /\ RtspOf(n) \in Sender /\ RtspOf(n).name = n
  BY DEF Sender, RtspOf
<1>2. m_resolvedVideoSenders' = stays
  BY DEF lostRPIVideoSender, Kept
<1>3. /\ stays \in Seq(Sender)
      /\ Count(stays, Len(stays), RtspOf(n)) = IF n = name THEN 0
                                            ELSE Count(m, Len(m), RtspOf(n))
  BY <1>1, LosingCounts
<1> HIDE DEF stays
<1>4. Cardinality(RtspSenders(n)) = Count(m, Len(m), RtspOf(n))
  BY <1>1, RtspCount DEF RtspSenders
<1>5. Cardinality(RtspSenders(n)') = Count(stays, Len(stays), RtspOf(n))
  <2>1. RtspSenders(n)' = {i \in DOMAIN stays : stays[i] = [name |-> n, rtsp |-> TRUE]}
    BY <1>2 DEF RtspSenders
  <2> QED
    BY <1>3, <2>1, RtspCount
<1>6. CASE \E i \in DOMAIN m : m[i].name = name
  <2>1. onRpiVideoSenderRtspWentAway(name)
    BY <1>6 DEF lostRPIVideoSender
  <2>2. /\ alive' = alive
        /\ LiveVideos(n)' = IF n = name THEN {} ELSE LiveVideos(n)
    BY <2>1, WentAwayLive
  <2>3. Cardinality({}) = 0
    BY FS_EmptySet
  <2> QED
    BY <1>2, <1>3, <1>4, <1>5, <2>2, <2>3
\* The page is not told; it has no video of that name.
<1>7. CASE ~\E i \in DOMAIN m : m[i].name = name
  <2>1. alive' = alive /\ LiveVideos(n)' = LiveVideos(n)
    BY <1>7, NoPageStep DEF lostRPIVideoSender
  <2>2. n = name => Cardinality(RtspSenders(n)) = 0
    <3>1. n = name => RtspSenders(n) = {}
      BY <1>7 DEF RtspSenders
    <3> QED
      BY <3>1, FS_EmptySet
  <2> QED
    BY <1>2, <1>3, <1>4, <1>5, <2>1, <2>2
<1> QED
  BY <1>6, <1>7

LEMMA BrowseDrives ==
  ASSUME BrowseTypeOK, [BrowseNext]_<<backend, browseVars>>
  PROVE  [Next]_formVars
<1>1. ASSUME NEW n \in Name, NEW l \in BusLink,
             Appear(n, l) \/ Disappear(n, l) \/ ResolverFinds(n) \/ RecordChanges(n)
      PROVE  UNCHANGED formVars
  BY <1>1 DEF Appear, Disappear, ResolverFinds, RecordChanges
<1>2. ASSUME NEW n \in Name, ResolverFinds(n) \/ RecordChanges(n)
      PROVE  UNCHANGED formVars
  BY <1>2 DEF ResolverFinds, RecordChanges
<1>3. CASE Deliver
  <2> DEFINE s == Head(bus)
  <2>1. s.name \in Name
    <3>1. bus \in Seq(Signal) /\ bus # << >>
      BY <1>3 DEF Deliver, BrowseTypeOK
    <3>2. s \in Signal
      BY <3>1
    <3> QED
      BY <3>2 DEF Signal
  <2> HIDE DEF s
  <2>2. CASE signalVideoSenderNew(s.name)
    BY <2>2 DEF signalVideoSenderNew
  <2>3. CASE signalVideoSenderRemoved(s.name)
    BY <2>1, <2>3 DEF signalVideoSenderRemoved, lostRPIVideoSender, Next
  <2>4. CASE resolvedVideoSenderFound(s.name, s.rtsp)
    BY <2>1, <2>4 DEF resolvedVideoSenderFound, foundRPIVideoSender, Next
  <2> QED
    BY <1>3, <2>2, <2>3, <2>4 DEF Deliver, s
<1>4. CASE PageStep
  BY <1>4 DEF PageStep, Next
<1>5. CASE UNCHANGED <<backend, browseVars>>
  BY <1>5 DEF browseVars
<1> QED
  BY <1>1, <1>2, <1>3, <1>4, <1>5 DEF BrowseNext

\* The part of the type that no handler of the page touches
BusTypeOK ==
  /\ DOMAIN m_nameToResolver \subseteq Name
  /\ \A n \in DOMAIN m_nameToResolver : m_nameToResolver[n] \in Link \cup {None}
  /\ found \subseteq DOMAIN m_nameToResolver
  /\ bus \in Seq(Signal)
  /\ up \subseteq Service
  /\ late \subseteq Name

LEMMA BrowseBus ==
  ASSUME BusTypeOK, [BrowseNext]_<<backend, browseVars>>
  PROVE  BusTypeOK'
<1>1. ASSUME NEW n \in Name, NEW sig \in {"ItemNew", "ItemRemove", "Found"}, NEW rtsp \in BOOLEAN,
             Send(sig, n, rtsp)
      PROVE  bus' \in Seq(Signal)
  <2>1. [sig |-> sig, name |-> n, rtsp |-> rtsp] \in Signal
    BY DEF Signal
  <2> QED
    BY <1>1, <2>1 DEF Send, BusTypeOK
<1>2. ASSUME NEW n \in Name, NEW l \in BusLink, Appear(n, l) PROVE BusTypeOK'
  <2>1. bus' \in Seq(Signal)
    BY <1>1, <1>2 DEF Appear
  <2>2. up' \subseteq Service
    BY <1>2, BrowseAssumption DEF Appear, BusTypeOK, Service
  <2> QED
    BY <1>2, <2>1, <2>2 DEF Appear, BusTypeOK
<1>3. ASSUME NEW n \in Name, NEW l \in BusLink, Disappear(n, l) PROVE BusTypeOK'
  BY <1>1, <1>3, BrowseAssumption DEF Disappear, BusTypeOK, Service
<1>4. ASSUME NEW n \in Name, ResolverFinds(n) PROVE BusTypeOK'
  <2> PICK l \in BusLink, rtsp \in BOOLEAN :
        /\ Answered(n, l)
        /\ m_nameToResolver' = [m_nameToResolver EXCEPT ![n] = l]
        /\ Send("Found", n, rtsp)
    BY <1>4 DEF ResolverFinds
  <2>1. bus' \in Seq(Signal)
    BY <1>1
  <2>2. /\ DOMAIN m_nameToResolver' = DOMAIN m_nameToResolver
        /\ \A m \in DOMAIN m_nameToResolver' : m_nameToResolver'[m] \in Link \cup {None}
    BY BrowseAssumption DEF BusTypeOK
  <2>3. found' \subseteq DOMAIN m_nameToResolver' /\ up' = up
    BY <1>4, <2>2 DEF ResolverFinds, BusTypeOK
  <2>4. late' \subseteq Name
    BY DEF Answered, BusTypeOK
  <2> QED
    BY <2>1, <2>2, <2>3, <2>4 DEF BusTypeOK
<1>5. ASSUME NEW n \in Name, RecordChanges(n) PROVE BusTypeOK'
  BY <1>5 DEF RecordChanges, BusTypeOK, discoverVars
<1>6. CASE Deliver
  <2> DEFINE s == Head(bus)
  <2>1. s.name \in Name /\ bus' \in Seq(Signal)
    <3>1. bus \in Seq(Signal) /\ bus # << >>
      BY <1>6 DEF Deliver, BusTypeOK
    <3>2. s \in Signal /\ Tail(bus) \in Seq(Signal)
      BY <3>1
    <3> QED
      BY <1>6, <3>2 DEF Signal, Deliver
  <2> HIDE DEF s
  <2>2. CASE signalVideoSenderNew(s.name)
    <3>1. /\ DOMAIN m_nameToResolver' = DOMAIN m_nameToResolver \cup {s.name}
          /\ \A m \in DOMAIN m_nameToResolver' : m_nameToResolver'[m] \in Link \cup {None}
      BY <2>2 DEF signalVideoSenderNew, BusTypeOK
    <3> QED
      BY <1>6, <2>1, <3>1 DEF Deliver, BusTypeOK
  <2>3. CASE UNCHANGED m_nameToResolver
    BY <1>6, <2>1, <2>3 DEF Deliver, BusTypeOK
  <2> QED
    BY <1>6, <2>2, <2>3
    DEF Deliver, s, signalVideoSenderRemoved, resolvedVideoSenderFound
<1>7. CASE PageStep /\ UNCHANGED <<m_nameToResolver, found, bus>>
  BY <1>7 DEF PageStep, BusTypeOK, discoverVars
<1>8. CASE UNCHANGED <<backend, browseVars>>
  BY <1>8 DEF browseVars, BusTypeOK, discoverVars
<1> QED
  BY <1>2, <1>3, <1>4, <1>5, <1>6, <1>7, <1>8 DEF BrowseNext

\* One video per sender that streams, whatever the page and the bus do.
LEMMA BrowseCounts ==
  ASSUME BrowseIInv, [BrowseNext]_<<backend, browseVars>>, NEW n \in Name
  PROVE  /\ m_resolvedVideoSenders' \in Seq(Sender)
         /\ IsFiniteSet(alive')
         /\ Cardinality(LiveVideos(n)') = Cardinality(RtspSenders(n)')
<1>1. /\ PageInv /\ IsFiniteSet(alive) /\ bus \in Seq(Signal)
      /\ m_resolvedVideoSenders \in Seq(Sender)
      /\ Cardinality(LiveVideos(n)) = Cardinality(RtspSenders(n))
  BY DEF BrowseIInv, BrowseInv, BrowseTypeOK, DiscoverTypeOK, VideosMatchSenders
<1>2. ASSUME UNCHANGED m_resolvedVideoSenders, alive' \subseteq alive,
             LiveVideos(n)' = LiveVideos(n)
      PROVE  /\ m_resolvedVideoSenders' \in Seq(Sender)
             /\ IsFiniteSet(alive')
             /\ Cardinality(LiveVideos(n)') = Cardinality(RtspSenders(n)')
  <2>1. RtspSenders(n)' = RtspSenders(n)
    BY <1>2 DEF RtspSenders
  <2> QED
    BY <1>1, <1>2, <2>1, FS_Subset
<1>3. CASE UNCHANGED formVars /\ UNCHANGED m_resolvedVideoSenders
  <2>1. alive' = alive /\ LiveVideos(n)' = LiveVideos(n)
    BY <1>3, NoPageStep
  <2> QED
    BY <1>2, <1>3, <2>1
<1>4. CASE Deliver
  <2> DEFINE s == Head(bus)
  <2>1. s.name \in Name /\ s.rtsp \in BOOLEAN
    <3>1. s \in Signal
      BY <1>1, <1>4 DEF Deliver
    <3> QED
      BY <3>1 DEF Signal
  <2> HIDE DEF s
  <2>2. CASE signalVideoSenderNew(s.name)
    BY <1>3, <2>2 DEF signalVideoSenderNew
  <2>3. CASE signalVideoSenderRemoved(s.name)
    BY <1>1, <2>1, <2>3, LostBoth DEF signalVideoSenderRemoved
  <2>4. CASE resolvedVideoSenderFound(s.name, s.rtsp)
    <3>1. foundRPIVideoSender(s.name, s.rtsp)
      BY <2>4 DEF resolvedVideoSenderFound
    <3>2. /\ m_resolvedVideoSenders' \in Seq(Sender)
          /\ IsFiniteSet(alive')
          /\ \E d \in {0, 1} :
               /\ Cardinality(LiveVideos(n)') = Cardinality(LiveVideos(n)) + d
               /\ Cardinality(RtspSenders(n)') = Cardinality(RtspSenders(n)) + d
      BY <1>1, <2>1, <3>1, FoundBoth
    <3> QED
      BY <1>1, <3>2
  <2> QED
    BY <1>4, <2>2, <2>3, <2>4 DEF Deliver, s
<1>5. CASE PageStep
  BY <1>1, <1>2, <1>5, PageStepLive DEF PageStep, discoverVars
<1>6. ASSUME NEW m \in Name, NEW l \in BusLink, Appear(m, l) \/ Disappear(m, l)
      PROVE  UNCHANGED formVars /\ UNCHANGED m_resolvedVideoSenders
  BY <1>6 DEF Appear, Disappear
<1>7. ASSUME NEW m \in Name, ResolverFinds(m) \/ RecordChanges(m)
      PROVE  UNCHANGED formVars /\ UNCHANGED m_resolvedVideoSenders
  BY <1>7 DEF ResolverFinds, RecordChanges, discoverVars
<1>8. UNCHANGED <<backend, browseVars>> => UNCHANGED formVars /\ UNCHANGED m_resolvedVideoSenders
  BY DEF browseVars, discoverVars
<1> QED
  BY <1>3, <1>4, <1>5, <1>6, <1>7, <1>8 DEF BrowseNext

LEMMA BrowseStep == BrowseIInv /\ [BrowseNext]_<<backend, browseVars>> => BrowseIInv'
<1> SUFFICES ASSUME BrowseIInv, [BrowseNext]_<<backend, browseVars>> PROVE BrowseIInv'
  OBVIOUS
<1>1. PageInv'
  BY StepPage, BrowseDrives DEF BrowseIInv, BrowseInv
<1>2. BusTypeOK'
  BY BrowseBus DEF BrowseIInv, BrowseInv, BrowseTypeOK, DiscoverTypeOK, BusTypeOK
<1>3. backend' = backend
  BY DEF BrowseNext
<1>4. VideosMatchSenders'
  BY BrowseCounts DEF VideosMatchSenders
<1>5. m_resolvedVideoSenders' \in Seq(Sender) /\ IsFiniteSet(alive')
  <2>1. CASE \E n : n \in Name
    BY <2>1, BrowseCounts
  <2>2. CASE ~\E n : n \in Name
    <3>1. CASE Deliver
      <4>1. bus \in Seq(Signal) /\ bus # << >>
        BY <3>1 DEF Deliver, BrowseIInv, BrowseInv, BrowseTypeOK
      <4>2. Head(bus) \in Signal
        BY <4>1
      <4> QED
        BY <2>2, <4>2 DEF Signal
    <3>2. CASE PageStep
      <4>1. alive' \subseteq alive
        BY <3>2, PageStepLive DEF PageStep, BrowseIInv
      <4> QED
        BY <3>2, <4>1, FS_Subset
        DEF PageStep, discoverVars, BrowseIInv, BrowseInv, BrowseTypeOK, DiscoverTypeOK
    <3>3. CASE UNCHANGED <<backend, browseVars>>
      BY <3>3 DEF browseVars, formVars, discoverVars, BrowseIInv, BrowseInv, BrowseTypeOK,
                  DiscoverTypeOK
    <3> QED
      BY <2>2, <3>1, <3>2, <3>3 DEF BrowseNext
  <2> QED
    BY <2>1, <2>2
<1>6. BrowseTypeOK'
  BY <1>1, <1>2, <1>3, <1>5
  DEF BrowseIInv, BrowseTypeOK, DiscoverTypeOK, BusTypeOK, PageInv, createServiceDiscover
<1> QED
  BY <1>1, <1>3, <1>4, <1>5, <1>6 DEF BrowseIInv, BrowseInv

LEMMA BrowseStart == BrowseInit /\ backend = "AvahiBrowse" => BrowseIInv
<1> SUFFICES ASSUME BrowseInit, backend = "AvahiBrowse" PROVE BrowseIInv
  OBVIOUS
<1>1. PageInv
  BY InitPage DEF BrowseInit, DiscoverInit
<1>2. IsFiniteSet(alive)
  BY FS_EmptySet DEF BrowseInit, DiscoverInit, Init
<1>3. \A n \in Name : LiveVideos(n) = {} /\ RtspSenders(n) = {}
  BY DEF BrowseInit, DiscoverInit, Init, LiveVideos, RtspSenders
<1>4. BrowseTypeOK
  BY <1>1 DEF BrowseTypeOK, DiscoverTypeOK, PageInv, BrowseInit, DiscoverInit, createServiceDiscover
<1>5. VideosMatchSenders
  BY <1>3 DEF VideosMatchSenders
<1> QED
  BY <1>1, <1>2, <1>4, <1>5 DEF BrowseIInv, BrowseInv

\* With the client of the daemon the page has one live video for every kept sender that
\* streams, whatever the bus delays or repeats and whatever the user clicks
\* (foundRPIVideoSender, lostRPIVideoSender).
THEOREM PageMatchesSenders == BrowseSpec => []BrowseInv
<1>1. BrowseIInv => BrowseInv
  BY DEF BrowseIInv
<1> QED
  BY <1>1, BrowseStart, BrowseStep, PTL DEF BrowseSpec

\* With the client of the daemon the video page behaves as module VideoForm says.
THEOREM BrowseDrivesPage == BrowseSpec => Spec
<1>1. BrowseInit => Init
  BY DEF BrowseInit, DiscoverInit
<1>2. BrowseIInv /\ [BrowseNext]_<<backend, browseVars>> => [Next]_formVars
  BY BrowseDrives DEF BrowseIInv, BrowseInv
<1> QED
  BY <1>1, <1>2, BrowseStart, BrowseStep, PTL DEF BrowseSpec, Spec

-----------------------------------------------------------------------------
(* Web pages.                                                              *)

\* A tab was moved only after it was initialized; the page it reported is the one it shows;
\* a tab with a page of its own has it in the settings.
WebIInv ==
  /\ WebInv
  /\ m_currentURLs = url
  /\ \A t \in Tab : webInitialized[t] \/ moved[t] = 0
  /\ \A t \in own : ~isUsingDefaultPageForID(t)

LEMMA WebStart == WebInit => WebIInv
BY WebAssumption
DEF WebInit, WebIInv, WebInv, WebTypeOK, DiscoveryMovesOnce, OwnPageStays, ChosenPageIsDefault

\* The program starts with settings that hold what the user chose.
LEMMA WebRestart ==
  ASSUME NEW settings \in [Tab -> Url \cup {NoUrl, "none"}], StartWith(settings),
         m_settings' = chosen', kept' = settings
  PROVE  WebIInv'
<1>1. \A t \in Tab : ValueIn(settings, t) \in Url \cup {NoUrl}
  BY WebAssumption DEF ValueIn
<1>2. WebTypeOK'
  <2>1. {m_settings', disk', chosen', kept'} \subseteq [Tab -> Url \cup {NoUrl, "none"}]
    BY DEF StartWith
  <2>2. /\ {m_currentURLs', url', loading'} \subseteq [Tab -> Url \cup {NoUrl}]
        /\ webInitialized' \in [Tab -> BOOLEAN] /\ own' \subseteq Tab /\ moved' \in [Tab -> 0..2]
    BY <1>1 DEF StartWith
  <2> QED
    BY <2>1, <2>2 DEF WebTypeOK
<1>4. ChosenPageIsDefault'
  BY DEF StartWith, ChosenPageIsDefault
<1>3. \A t \in own' : ~isUsingDefaultPageForID(t)'
  BY DEF StartWith, isUsingDefaultPageForID, defaultPageForID, ValueIn
<1> QED
  BY <1>2, <1>3, <1>4 DEF StartWith, WebIInv, WebInv, DiscoveryMovesOnce, OwnPageStays

LEMMA WebStep == WebIInv /\ [WebNext]_webVars => WebIInv'
<1> SUFFICES ASSUME WebIInv, [WebNext]_webVars PROVE WebIInv'
  OBVIOUS
<1> USE DEF WebIInv, WebInv, DiscoveryMovesOnce, OwnPageStays, ChosenPageIsDefault
<1>1. ASSUME NEW t \in Tab, NEW u \in Url \cup {NoUrl}, onUrlChanged(t, u),
             UNCHANGED <<m_settings, disk, webInitialized, chosen, kept, own, moved>>
      PROVE  WebIInv'
  <2>1. WebTypeOK'
    BY <1>1 DEF WebTypeOK, onUrlChanged
  <2>2. m_currentURLs' = url'
    BY <1>1 DEF onUrlChanged
  <2> QED
    BY <1>1, <2>1, <2>2 DEF isUsingDefaultPageForID, defaultPageForID, ValueIn
<1>2. ASSUME NEW t \in Tab, Load(t) PROVE WebIInv'
  BY <1>1, <1>2 DEF Load, WebTypeOK
<1>3. ASSUME NEW t \in Tab, NEW u \in Url, Follow(t, u) PROVE WebIInv'
  BY <1>1, <1>3 DEF Follow
<1>4. ASSUME NEW t \in Tab, saveDefaultPageForID(t) PROVE WebIInv'
  <2>1. WebTypeOK' /\ m_settings' = chosen'
    BY <1>4 DEF WebTypeOK, saveDefaultPageForID
  <2>2. \A o \in own' : ~isUsingDefaultPageForID(o)'
    BY <1>4, WebAssumption
    DEF saveDefaultPageForID, isUsingDefaultPageForID, defaultPageForID, ValueIn, WebTypeOK
  <2> QED
    BY <1>4, <2>1, <2>2 DEF saveDefaultPageForID
<1>5. ASSUME NEW t \in Tab, clearDefaultPageForID(t) PROVE WebIInv'
  <2>1. WebTypeOK' /\ m_settings' = chosen'
    BY <1>5 DEF WebTypeOK, clearDefaultPageForID
  <2>2. \A o \in own' : ~isUsingDefaultPageForID(o)'
    BY <1>5
    DEF clearDefaultPageForID, isUsingDefaultPageForID, defaultPageForID, ValueIn, WebTypeOK
  <2> QED
    BY <1>5, <2>1, <2>2 DEF clearDefaultPageForID
<1>6. ASSUME NEW u \in JmriServer, onJmriWebserverFound(u) PROVE WebIInv'
  <2>1. WebTypeOK'
    BY <1>6, WebAssumption DEF WebTypeOK, onJmriWebserverFound
  <2>2. \A t \in Tab : moved'[t] <= 1 /\ webInitialized'[t] /\ (t \in own => moved'[t] = 0)
    BY <1>6 DEF WebTypeOK, onJmriWebserverFound, Moves
  <2>3. \A t \in own' : ~isUsingDefaultPageForID(t)'
    BY <1>6 DEF onJmriWebserverFound, isUsingDefaultPageForID, defaultPageForID, ValueIn
  <2>4. m_settings' = chosen' /\ disk' = kept' /\ m_currentURLs' = url' /\ own' = own
    BY <1>6 DEF onJmriWebserverFound
  <2>5. DiscoveryMovesOnce' /\ \A t \in Tab : webInitialized'[t] \/ moved'[t] = 0
    BY <2>2
  <2>6. OwnPageStays'
    <3>1. own \subseteq Tab
      BY DEF WebTypeOK
    <3>2. \A t \in own : moved'[t] = 0
      BY <3>1, <2>2
    <3> QED
      BY <3>2, <2>4
  <2> QED
    BY <2>1, <2>3, <2>4, <2>5, <2>6
<1>7. CASE Sync
  BY <1>7 DEF Sync, WebTypeOK, isUsingDefaultPageForID, defaultPageForID, ValueIn
<1>8. CASE Quit
  BY <1>8, WebRestart DEF Quit, StartWith, WebTypeOK
<1>9. CASE Kill
  BY <1>9, WebRestart DEF Kill, StartWith, WebTypeOK
<1>10. CASE UNCHANGED webVars
  BY <1>10 DEF webVars, WebTypeOK, isUsingDefaultPageForID, defaultPageForID, ValueIn
<1> QED
  BY <1>2, <1>3, <1>4, <1>5, <1>6, <1>7, <1>8, <1>9, <1>10 DEF WebNext, foundHTTPServer

\* A tab shows what the user chose: discovery moves it at most once in a run, never from a
\* page of the user's own, and what is saved is what was on the screen, in any order of
\* discovery, saving, clearing, links, restarts and kills (WebForm.qml, settingshelper.cpp).
THEOREM ChosenPagesStay == WebSpec => []WebInv
<1>1. WebIInv => WebInv
  BY DEF WebIInv
<1> QED
  BY <1>1, WebStart, WebStep, PTL DEF WebSpec
=============================================================================
