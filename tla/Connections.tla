---------------------------- MODULE Connections -----------------------------
(***************************************************************************)
(* What the page knows of its two servers: the cloud, whose address can    *)
(* be configured (frontend/src/hooks/useCloudApi.ts and the dialog         *)
(* CloudConfigModal), and the local agent, which is asked again and again  *)
(* while the page is in local mode (useLocalConnection.ts).  Which         *)
(* requests are in flight is a number per server: answers come in any      *)
(* order, good or bad.  What a device list is used for is in Dashboard.    *)
(***************************************************************************)
EXTENDS Naturals

CONSTANTS Servers,      \* addresses
          Default,      \* the one of the environment
          Invalid,      \* what can be typed and is no address
          NoServer,
          MaxRefreshes, MaxChecks   \* bounds on requests in flight, and on timers

ASSUME ServersAssumption ==
    Default \in Servers /\ Invalid \notin Servers /\ NoServer \notin Servers

VARIABLES mode,
          baseUrl, storedUrl,   \* the address in use, and localStorage "cloud-config"
          asked,                \* requests for the device list in flight, by server
          cloudStatus, loadingDevices,
          devicesOf,            \* the server whose devices are listed
          refreshTimers,        \* those that run the 100 ms after a save
          dialog,               \* the dialog: open, the text in it, an error below it
          monitoring, checks, localStatus,   \* the interval, its requests in flight
          mixed                 \* history: refreshes in flight have overlapped

cloudVars == <<baseUrl, storedUrl, asked, cloudStatus, loadingDevices, devicesOf,
               refreshTimers, mixed>>
localVars == <<monitoring, checks, localStatus>>
connVars == <<mode, cloudVars, dialog, localVars>>

Status == {"idle", "connecting", "connected", "failed"}

ConnTypeOK ==
    /\ mode \in {"local", "cloud"}
    /\ baseUrl \in Servers /\ storedUrl \in Servers \cup {NoServer}
    /\ asked \in [Servers -> Nat]
    /\ cloudStatus \in Status /\ loadingDevices \in BOOLEAN
    /\ devicesOf \in Servers \cup {NoServer}
    /\ refreshTimers \in Nat /\ mixed \in BOOLEAN
    /\ dialog \in [open : BOOLEAN, text : Servers \cup {Invalid}, error : BOOLEAN]
    /\ monitoring \in BOOLEAN /\ checks \in Nat /\ localStatus \in Status

Refreshing == \E s \in Servers : asked[s] > 0

\* The address is the stored one, or the default.
GetBaseUrl(stored) == IF stored = NoServer THEN Default ELSE stored

ConnInit ==
    /\ mode = "local"
    /\ storedUrl \in Servers \cup {NoServer}
    /\ baseUrl = GetBaseUrl(storedUrl)
    /\ asked = [s \in Servers |-> 0]
    /\ cloudStatus = "idle" /\ loadingDevices = FALSE
    /\ devicesOf = NoServer /\ refreshTimers = 0 /\ mixed = FALSE
    /\ dialog = [open |-> FALSE, text |-> baseUrl, error |-> FALSE]
    /\ monitoring = TRUE /\ checks = 1 /\ localStatus = "connecting"

\* Every render of the page gives the dialog a new currentConfig, and its effect puts
\* the address in use into the text, also while it is open and the user is typing.
Render == dialog' = [dialog EXCEPT !.text = baseUrl]

-----------------------------------------------------------------------------
(* The cloud. *)

\* refreshDevices up to its await.
StartRefresh ==
    /\ asked[baseUrl] < MaxRefreshes
    /\ asked' = [asked EXCEPT ![baseUrl] = @ + 1]
    /\ cloudStatus' = "connecting" /\ loadingDevices' = TRUE
    /\ mixed' = Refreshing

\* The buttons of the device panel, disabled while a refresh is under way, and of the
\* command panel, which is not.
RefreshDevices ==
    /\ mode = "cloud" /\ ~dialog.open
    /\ StartRefresh
    /\ Render
    /\ UNCHANGED <<mode, baseUrl, storedUrl, devicesOf, refreshTimers, localVars>>

Answered(s) ==
    /\ asked[s] > 0
    /\ asked' = [asked EXCEPT ![s] = @ - 1]
    /\ Render
    /\ UNCHANGED <<mode, baseUrl, storedUrl, refreshTimers, localVars>>

RefreshSucceeds(s) ==
    /\ Answered(s)
    /\ cloudStatus' = "connected" /\ loadingDevices' = FALSE
    /\ devicesOf' = s
    /\ UNCHANGED mixed

\* Mutant of RefreshFails: without the finally.
RefreshFailsLoading(s) ==
    /\ Answered(s)
    /\ cloudStatus' = "failed"
    /\ devicesOf' = NoServer
    /\ UNCHANGED <<loadingDevices, mixed>>

\* "Clear the device list when the connection fails."
RefreshFails(s) ==
    /\ Answered(s)
    /\ cloudStatus' = "failed" /\ loadingDevices' = FALSE
    /\ devicesOf' = NoServer
    /\ UNCHANGED mixed

-----------------------------------------------------------------------------
(* The configuration. *)

OpenConfig ==
    /\ mode = "cloud" /\ ~dialog.open
    /\ dialog' = [dialog EXCEPT !.open = TRUE, !.text = baseUrl]
    /\ UNCHANGED <<mode, cloudVars, localVars>>

TypeUrl ==
    /\ dialog.open
    /\ \E u \in Servers \cup {Invalid} : dialog' = [dialog EXCEPT !.text = u, !.error = FALSE]
    /\ UNCHANGED <<mode, cloudVars, localVars>>

CancelConfig ==
    /\ dialog.open
    /\ dialog' = [open |-> FALSE, text |-> baseUrl, error |-> FALSE]
    /\ UNCHANGED <<mode, cloudVars, localVars>>

RefuseConfig ==
    /\ dialog.open /\ dialog.text = Invalid
    /\ dialog' = [dialog EXCEPT !.error = TRUE]
    /\ UNCHANGED <<mode, cloudVars, localVars>>

\* Mutant of SaveConfig: no refresh follows.
SaveConfigOnly ==
    /\ dialog.open /\ dialog.text # Invalid
    /\ storedUrl' = dialog.text /\ baseUrl' = dialog.text
    /\ dialog' = [dialog EXCEPT !.open = FALSE, !.error = FALSE]
    /\ UNCHANGED <<mode, asked, cloudStatus, loadingDevices, devicesOf, refreshTimers, mixed,
                   localVars>>

\* handleSave and handleSaveCloudConfig.  When localStorage refuses the address the
\* handler throws before it has changed anything.
SaveConfig ==
    /\ dialog.open /\ dialog.text # Invalid /\ refreshTimers < MaxRefreshes
    /\ storedUrl' = dialog.text /\ baseUrl' = dialog.text
    /\ dialog' = [dialog EXCEPT !.open = FALSE, !.error = FALSE]
    /\ refreshTimers' = refreshTimers + 1
    /\ UNCHANGED <<mode, asked, cloudStatus, loadingDevices, devicesOf, mixed, localVars>>

RefreshTimerFires ==
    /\ refreshTimers > 0
    /\ refreshTimers' = refreshTimers - 1
    /\ StartRefresh
    /\ Render
    /\ UNCHANGED <<mode, baseUrl, storedUrl, devicesOf, localVars>>

-----------------------------------------------------------------------------
(* The local agent. *)

\* checkConnection up to its await.
CheckConnection ==
    /\ mode = "local" /\ checks < MaxChecks
    /\ checks' = checks + 1
    /\ localStatus' = "connecting"

\* The interval, or the button.
Check == CheckConnection /\ Render /\ UNCHANGED <<mode, cloudVars, monitoring>>

\* A check in flight when the monitor stopped is applied as well.
CheckAnswered ==
    /\ checks > 0
    /\ checks' = checks - 1
    /\ localStatus' \in {"connected", "failed"}
    /\ Render
    /\ UNCHANGED <<mode, cloudVars, monitoring>>

\* onToggleMode: to the cloud the monitor is stopped and the devices are asked for.
ToggleToCloud ==
    /\ mode = "local" /\ mode' = "cloud"
    /\ monitoring' = FALSE /\ localStatus' = "idle"
    /\ StartRefresh
    /\ Render
    /\ UNCHANGED <<baseUrl, storedUrl, devicesOf, refreshTimers, checks>>

\* Back: the click starts the monitor, and the effect on mode stops and starts it: two
\* checks at once.
ToggleToLocal ==
    /\ mode = "cloud" /\ mode' = "local" /\ ~dialog.open
    /\ checks + 2 <= MaxChecks
    /\ checks' = checks + 2
    /\ monitoring' = TRUE /\ localStatus' = "connecting"
    /\ Render
    /\ UNCHANGED cloudVars

ToggleMode == ToggleToCloud \/ ToggleToLocal

\* The page is loaded anew.
ReloadPage ==
    /\ mode' = "local"
    /\ baseUrl' = GetBaseUrl(storedUrl)
    /\ asked' = [s \in Servers |-> 0]
    /\ cloudStatus' = "idle" /\ loadingDevices' = FALSE
    /\ devicesOf' = NoServer /\ refreshTimers' = 0 /\ mixed' = FALSE
    /\ dialog' = [open |-> FALSE, text |-> baseUrl', error |-> FALSE]
    /\ monitoring' = TRUE /\ checks' = 1 /\ localStatus' = "connecting"
    /\ UNCHANGED storedUrl

\* All but the ways to toggle, to reload, and to reach the dialog.
ConnStep ==
    \/ RefreshDevices \/ TypeUrl \/ CancelConfig \/ RefuseConfig \/ SaveConfig
    \/ RefreshTimerFires \/ Check \/ CheckAnswered
    \/ \E s \in Servers : RefreshSucceeds(s) \/ RefreshFails(s)

ConnNext == ConnStep \/ OpenConfig \/ ToggleMode \/ ReloadPage

ConnSpec == ConnInit /\ [][ConnNext]_connVars

-----------------------------------------------------------------------------
(* Safety. *)

\* When the page says "connected", the devices it lists are those of the server whose
\* address is in use, though that changes while requests to the old one are in flight;
\* unless two refreshes overlapped, when the answer of the old server may be the last
\* to come and stay.  When it says "failed" no device is listed (useCloudApi.ts 50-72,
\* App.tsx 167-180).
DevicesAreOfServer ==
    /\ cloudStatus = "failed" => devicesOf = NoServer
    /\ ~mixed /\ refreshTimers = 0 /\ cloudStatus = "connected" => devicesOf = baseUrl

\* The page shows a check, or a refresh, as under way only while one is: every request
\* takes away what it has put up, whatever the others, and the mode switches that come
\* between, do.  In local mode the agent is always monitored.
SpinnersEnd ==
    /\ cloudStatus = "connecting" \/ loadingDevices => Refreshing
    /\ ~mixed => (loadingDevices <=> Refreshing)
    /\ localStatus = "connecting" => checks > 0
    /\ mode = "local" => monitoring /\ localStatus # "idle"
=============================================================================
