------------------------------ MODULE WebPages ------------------------------
(***************************************************************************)
(* The tabs that show web pages (qml/WebForm.qml), the page each of them   *)
(* starts with (settingshelper.cpp, qml/SettingsPage.qml) and the web      *)
(* server of the model railroad that discovery reports to all of them.     *)
(*                                                                         *)
(* The web view (external) loads what its url is set to some time later;   *)
(* only then its url changes, as it does when the user follows a link.     *)
(* QSettings (external) writes what was set now and then, and when the     *)
(* program ends in order.                                                  *)
(***************************************************************************)
EXTENDS Naturals

CONSTANTS Tab,         \* values of pageNumber
          Url,         \* pages
          DefaultURL,  \* m_defaultURL: the page that says there is no server
          NoUrl,       \* the empty string; in settings: no such key
          JmriServer   \* pages of web servers with the key jmri in their TXT record

ASSUME WebAssumption ==
  /\ DefaultURL \in Url /\ NoUrl \notin Url /\ JmriServer \subseteq Url
  /\ "none" \notin Url \cup {NoUrl}

VARIABLES m_settings,      \* tab -> the value of its key, or "none"
          disk,            \* m_settings as last written
          m_currentURLs,   \* tab -> the url it reported last
          url,             \* tab -> what its web view shows
          loading,         \* tab -> what its web view was told to show
          webInitialized,  \* tab -> the property of that name
          chosen,          \* history: tab -> the page that was shown when the user made it
                           \* the default, or "none"
          kept,            \* history: chosen, when the settings were last written
          own,             \* history: the tabs that had a page of their own ever since the
                           \* program started
          moved            \* history: tab -> how often discovery moved it since the start

webVars == <<m_settings, disk, m_currentURLs, url, loading, webInitialized, chosen, kept, own, moved>>

\* m_settings.value( key, m_defaultURL )
ValueIn(settings, t) == IF settings[t] = "none" THEN DefaultURL ELSE settings[t]

defaultPageForID(t) == ValueIn(m_settings, t)

isUsingDefaultPageForID(t) == defaultPageForID(t) = DefaultURL

-----------------------------------------------------------------------------
\* The program starts: every tab completes and loads its default page.
StartWith(settings) ==
  /\ m_settings' = settings
  /\ disk' = settings
  /\ m_currentURLs' = [t \in Tab |-> NoUrl]
  /\ url' = [t \in Tab |-> NoUrl]
  /\ loading' = [t \in Tab |-> ValueIn(settings, t)]
  /\ webInitialized' = [t \in Tab |-> FALSE]
  /\ own' = {t \in Tab : ValueIn(settings, t) # DefaultURL}
  /\ moved' = [t \in Tab |-> 0]

WebInit ==
  /\ m_settings = [t \in Tab |-> "none"]
  /\ disk = m_settings
  /\ m_currentURLs = [t \in Tab |-> NoUrl]
  /\ url = [t \in Tab |-> NoUrl]
  /\ loading = [t \in Tab |-> DefaultURL]
  /\ webInitialized = [t \in Tab |-> FALSE]
  /\ chosen = m_settings
  /\ kept = m_settings
  /\ own = {}
  /\ moved = [t \in Tab |-> 0]

\* The program ends in order and is started again; it is killed and started again.
Quit == StartWith(m_settings) /\ kept' = chosen /\ UNCHANGED chosen

Kill == StartWith(disk) /\ chosen' = kept /\ UNCHANGED kept

\* QSettings writes what was set.
Sync ==
  /\ disk' = m_settings
  /\ kept' = chosen
  /\ UNCHANGED <<m_settings, m_currentURLs, url, loading, webInitialized, chosen, own, moved>>

-----------------------------------------------------------------------------

\* onUrlChanged of the web view, with cacheDefaultPageForID.  A page that was to be loaded
\* before is not loaded any more.
onUrlChanged(t, u) ==
  /\ url' = [url EXCEPT ![t] = u]
  /\ m_currentURLs' = [m_currentURLs EXCEPT ![t] = u]
  /\ loading' = [loading EXCEPT ![t] = NoUrl]

\* The web view starts to show what it was told to.
Load(t) ==
  /\ loading[t] # NoUrl
  /\ onUrlChanged(t, loading[t])
  /\ UNCHANGED <<m_settings, disk, webInitialized, chosen, kept, own, moved>>

\* The user follows a link.
Follow(t, u) ==
  /\ url[t] # NoUrl /\ url[t] # u
  /\ onUrlChanged(t, u)
  /\ UNCHANGED <<m_settings, disk, webInitialized, chosen, kept, own, moved>>

\* "Use current page as default"
saveDefaultPageForID(t) ==
  /\ m_settings' = [m_settings EXCEPT ![t] = m_currentURLs[t]]
  /\ chosen' = [chosen EXCEPT ![t] = url[t]]
  /\ own' = IF m_currentURLs[t] = DefaultURL THEN own \ {t} ELSE own
  /\ UNCHANGED <<disk, m_currentURLs, url, loading, webInitialized, kept, moved>>

\* "Clear default page"
clearDefaultPageForID(t) ==
  /\ m_settings' = [m_settings EXCEPT ![t] = "none"]
  /\ chosen' = [chosen EXCEPT ![t] = "none"]
  /\ own' = own \ {t}
  /\ UNCHANGED <<disk, m_currentURLs, url, loading, webInitialized, kept, moved>>

\* Mutant: the page of the user is not respected.
Moves_any(t) == ~webInitialized[t]

\* onJmriWebserverFound: the tabs that load the server
Moves(t) == isUsingDefaultPageForID(t) /\ ~webInitialized[t]

\* The signal reaches all tabs; from then on every tab is initialized.
onJmriWebserverFound(u) ==
  /\ loading' = [t \in Tab |-> IF Moves(t) THEN u ELSE loading[t]]
  /\ moved' = [t \in Tab |-> IF Moves(t) /\ moved[t] < 2 THEN moved[t] + 1 ELSE moved[t]]
  /\ webInitialized' = [t \in Tab |-> TRUE]
  /\ UNCHANGED <<m_settings, disk, m_currentURLs, url, chosen, kept, own>>

\* A web server was resolved, for the first time or again.  Without the key jmri in its TXT
\* record nothing happens.
foundHTTPServer == \E u \in JmriServer : onJmriWebserverFound(u)

WebNext ==
  \/ \E t \in Tab : \/ Load(t) \/ saveDefaultPageForID(t) \/ clearDefaultPageForID(t)
                    \/ \E u \in Url : Follow(t, u)
  \/ foundHTTPServer
  \/ Sync \/ Quit \/ Kill

WebSpec == WebInit /\ [][WebNext]_webVars

-----------------------------------------------------------------------------
WebTypeOK ==
  /\ {m_settings, disk, chosen, kept} \subseteq [Tab -> Url \cup {NoUrl, "none"}]
  /\ {m_currentURLs, url, loading} \subseteq [Tab -> Url \cup {NoUrl}]
  /\ webInitialized \in [Tab -> BOOLEAN]
  /\ own \subseteq Tab
  /\ moved \in [Tab -> 0..2]

\* However often web servers are found, lost, changed and found again, and whatever the
\* user saves and clears meanwhile, discovery takes a tab away from its page at most once
\* in a run of the program.
DiscoveryMovesOnce == \A t \in Tab : moved[t] <= 1

\* A tab that was started with a page of the user's own, in this or after an earlier run of
\* the program, is left alone by discovery until the user gives that page up.
OwnPageStays == \A t \in own : moved[t] = 0

\* The default page of a tab is the one that was on the screen when the user chose it,
\* whether the user, the program or discovery had brought it there, also after restarts; a
\* program that was killed starts with the page chosen when the settings were last written.
ChosenPageIsDefault == m_settings = chosen /\ disk = kept

\* The page of a tab is the one the user chose, in any order of discovery, saving, clearing,
\* following links, restarts and kills.
WebInv == WebTypeOK /\ DiscoveryMovesOnce /\ OwnPageStays /\ ChosenPageIsDefault
=============================================================================
