----------------------------- MODULE VideoForm -----------------------------
(***************************************************************************)
(* The video page of the display (qml/VideoForm.qml, qml/NVMRVideo.qml).   *)
(*                                                                         *)
(* Every discovered camera is a Video object.  It is a child of exactly    *)
(* one item: the column otherVideos on the right, the single big pane      *)
(* mainVideo, or one of the four panes quad1 .. quad4.  Either mainVideo   *)
(* or the quads are visible, never both.  Clicks move videos, and the two  *)
(* signals of ServiceDiscover create and destroy them.                     *)
(*                                                                         *)
(* The children of a pane are kept as a sequence, because the page walks   *)
(* a children list by index while it reparents the very items of that list *)
(* (see Skipped).  otherVideos is never walked that way, so a video is in  *)
(* it when no pane has it.                                                 *)
(*                                                                         *)
(* destroy() only schedules a deletion: the object is dead to the page but *)
(* still a child of its parent until the event loop reaps it.              *)
(***************************************************************************)
EXTENDS Naturals, SequencesExt

CONSTANTS Video,   \* identities of NVMRVideo objects; bounds how many exist at once
          Name     \* unique names of video senders

VARIABLES alive,            \* objects created and not yet deleted
          dying,            \* objects destroy() was called on, not yet deleted
          uniqueName,       \* the uniqueName property of each object
          children,         \* pane -> its children, in order
          visible,          \* the pane group shown: "quad" or "main"
          quadVideoNumber,  \* the quad the next clicked video goes to
          announced,        \* history: names whose latest signal was Found
          placedBefore      \* history: the pairs of videos in the quads, the older placement first

formVars == <<alive, dying, uniqueName, children, visible, quadVideoNumber,
              announced, placedBefore>>

mainVideo == 0             \* panes are numbers: 0 is mainVideo,
Quads == 1..4              \* 1..4 are quad1 .. quad4
Pane == {mainVideo} \cup Quads

VisiblePanes == IF visible = "main" THEN {mainVideo} ELSE Quads

\* The pane that is the parent of v, if it is not otherVideos.
IsIn(v, p) == \E i \in DOMAIN children[p] : children[p][i] = v

-----------------------------------------------------------------------------
(* Walking a children list while reparenting its items.                    *)

\* for (i = 0; i < p.children.length; i++) p.children[i].parent = otherVideos:
\* taking an item out shifts the rest down, so every second one is passed over
\* and stays in the pane.
Skipped(s) == [i \in 1..(Len(s) \div 2) |-> s[2 * i]]

\* The variable newSingleVideo after such a loop: the last item reparented, as a
\* sequence of no or one video.
LastMoved(s) ==
  IF Len(s) = 0 THEN << >>
  ELSE <<s[IF Len(s) % 2 = 1 THEN Len(s) ELSE Len(s) - 1]>>

\* Setting another parent, or deleting the object, takes it out of its pane.
Unparent(s, v) ==
  IF \E i \in DOMAIN s : s[i] = v
  THEN RemoveAt(s, CHOOSE i \in DOMAIN s : s[i] = v)
  ELSE s

\* Mutant: the loop that empties the pane is forgotten.
StackIn(ch, p, v) ==
  [q \in Pane |-> IF q = p THEN Append(Unparent(ch[q], v), v) ELSE Unparent(ch[q], v)]

\* Empty pane p into otherVideos and make v its child.
ShowIn(ch, p, v) ==
  [q \in Pane |-> IF q = p THEN Append(Unparent(Skipped(ch[q]), v), v)
                           ELSE Unparent(ch[q], v)]

\* Mutant: prefer the first empty quad, but advance quadVideoNumber all the same.
firstFreeQuad(n) ==
  LET free == {q \in Quads : children[q] = << >>}
  IN IF free = {} THEN n + 1 ELSE CHOOSE q \in free : \A r \in free : q <= r

\* if / else if chain of addToQuadVideo
correctQuad(n) == n + 1

\* quadVideoNumber++, wrapping from 4 to 0
NextQuad(n) == IF n + 1 = 4 THEN 0 ELSE n + 1

\* The videos in the quads
InQuads(ch) == {w \in Video : \E q \in Quads : \E i \in DOMAIN ch[q] : ch[q][i] = w}

\* History only: which of the quads' videos is older, after v was placed.
Placed(ch, before, v) ==
  LET others == InQuads(ch) \ {v}
  IN (before \cap (others \X others)) \cup (others \X {v})

-----------------------------------------------------------------------------
Init ==
  /\ alive = {}
  /\ dying = {}
  /\ uniqueName = << >>
  /\ children = [p \in Pane |-> << >>]
  /\ visible = "quad"
  /\ quadVideoNumber = 0
  /\ announced = {}
  /\ placedBefore = {}

\* onRpiVideoSenderRtspFound: a new object, child of otherVideos.  Video bounds
\* the number of objects that exist at once.
onRpiVideoSenderRtspFound(name) ==
  /\ \E v \in Video \ alive :
       /\ alive' = alive \cup {v}
       /\ uniqueName' = [w \in alive' |-> IF w = v THEN name ELSE uniqueName[w]]
  /\ announced' = announced \cup {name}
  /\ UNCHANGED <<dying, children, visible, quadVideoNumber, placedBefore>>

\* onRpiVideoSenderRtspWentAway: destroy the videos of that name in the visible
\* panes and in otherVideos.  The hidden panes are not searched.
onRpiVideoSenderRtspWentAway(name) ==
  /\ dying' = dying \cup
       {v \in alive : /\ uniqueName[v] = name
                      /\ \A p \in Pane \ VisiblePanes : ~IsIn(v, p)}
  /\ announced' = announced \ {name}
  /\ UNCHANGED <<alive, uniqueName, children, visible, quadVideoNumber, placedBefore>>

\* videoClicked with mainVideo visible: the clicked video takes the pane over.
ClickInMain(v) ==
  /\ visible = "main" /\ ~IsIn(v, mainVideo)
  /\ children' = ShowIn(children, mainVideo, v)
  /\ UNCHANGED <<quadVideoNumber, placedBefore>>

\* videoClicked with the quads visible, and addToQuadVideo.
ClickInQuad(v) ==
  /\ visible = "quad" /\ \A q \in Quads : ~IsIn(v, q)
  /\ children' = ShowIn(children, correctQuad(quadVideoNumber), v)
  /\ quadVideoNumber' = NextQuad(quadVideoNumber)
  /\ placedBefore' = Placed(children', placedBefore, v)

videoClicked(v) ==
  /\ v \in alive
  /\ ClickInMain(v) \/ ClickInQuad(v)
  /\ UNCHANGED <<alive, dying, uniqueName, visible, announced>>

\* The button Multi: back to the quads; the video that was in mainVideo, if any,
\* is clicked.
onMultiClicked ==
  LET emptied == [children EXCEPT ![mainVideo] = Skipped(@)]
      newSingleVideo == LastMoved(children[mainVideo])
  IN
  /\ visible = "main"
  /\ visible' = "quad"
  /\ IF newSingleVideo = << >>
     THEN /\ children' = emptied
          /\ UNCHANGED <<quadVideoNumber, placedBefore>>
     ELSE /\ children' = ShowIn(emptied, correctQuad(quadVideoNumber), newSingleVideo[1])
          /\ quadVideoNumber' = NextQuad(quadVideoNumber)
          /\ placedBefore' = Placed(children', placedBefore, newSingleVideo[1])
  /\ UNCHANGED <<alive, dying, uniqueName, announced>>

\* Mutant: the loop over quad4 is forgotten.
onSingleClickedKeepsQuad4 ==
  LET emptied == [q \in Pane |-> IF q \in 1..3 THEN Skipped(children[q]) ELSE children[q]]
      newSingleVideo == LastMoved(children[1])
  IN
  /\ visible = "quad"
  /\ visible' = "main"
  /\ quadVideoNumber' = 0
  /\ placedBefore' = {}
  /\ children' = IF newSingleVideo = << >> THEN emptied
                 ELSE ShowIn(emptied, mainVideo, newSingleVideo[1])
  /\ UNCHANGED <<alive, dying, uniqueName, announced>>

\* The button Single: all quads are emptied, the video of quad1 is clicked.
onSingleClicked ==
  LET emptied == [q \in Pane |-> IF q \in Quads THEN Skipped(children[q]) ELSE children[q]]
      newSingleVideo == LastMoved(children[1])
  IN
  /\ visible = "quad"
  /\ visible' = "main"
  /\ quadVideoNumber' = 0
  /\ placedBefore' = {}
  /\ children' = IF newSingleVideo = << >> THEN emptied
                 ELSE ShowIn(emptied, mainVideo, newSingleVideo[1])
  /\ UNCHANGED <<alive, dying, uniqueName, announced>>

\* The event loop deletes an object on which destroy() was called.
DeferredDelete(v) ==
  /\ v \in dying
  /\ alive' = alive \ {v}
  /\ dying' = dying \ {v}
  /\ children' = [p \in Pane |-> Unparent(children[p], v)]
  /\ uniqueName' = [w \in alive' |-> uniqueName[w]]
  /\ placedBefore' = placedBefore \cap ((Video \ {v}) \X (Video \ {v}))
  /\ UNCHANGED <<visible, quadVideoNumber, announced>>

\* What the user does.
UserStep ==
  \/ \E v \in Video : videoClicked(v)
  \/ onMultiClicked
  \/ onSingleClicked

Reap == \E v \in Video : DeferredDelete(v)

Next ==
  \/ \E n \in Name : onRpiVideoSenderRtspFound(n) \/ onRpiVideoSenderRtspWentAway(n)
  \/ UserStep
  \/ Reap

Spec == Init /\ [][Next]_formVars

-----------------------------------------------------------------------------
TypeOK ==
  /\ alive \subseteq Video
  /\ dying \subseteq alive
  /\ uniqueName \in [alive -> Name]
  /\ children \in [Pane -> Seq(Video)]
  /\ visible \in {"quad", "main"}
  /\ quadVideoNumber \in 0..3
  /\ announced \subseteq Name

\* A pane never holds two videos on top of each other.  The loops that empty a
\* pane pass over every second child, so a pane that once held two would never
\* be emptied again.
OneVideoPerPane == \A p \in Pane : Len(children[p]) <= 1

\* The panes that are not shown are empty: switching between Multi and Single
\* leaves nothing behind that keeps streaming out of sight.
HiddenPanesEmpty == \A p \in Pane \ VisiblePanes : children[p] = << >>

\* After RtspWentAway(n), and until the next RtspFound(n), no live video of that
\* name is on the page, wherever the user had moved it, although the handler
\* searches the visible panes only.
NoVideoOfGoneSender ==
  \A v \in alive \ dying : uniqueName[v] \in announced

\* A clicked video replaces the one that has been in the quads for the longest
\* time, also after videos in between were destroyed and left holes, and after
\* the page went to Single and back ("Old views will be replaced by new ones").
ReplacesOldest ==
  [][\A w \in Video :
       (/\ visible = "quad" /\ visible' = "quad"
        /\ \E q \in Quads : IsIn(w, q)
        /\ w \in alive'
        /\ \A q \in Quads : ~IsIn(w, q)')
       => \A u \in InQuads(children) \ {w} : <<w, u>> \in placedBefore]_formVars
=============================================================================
