--------------------------- MODULE FrontEndProofs ---------------------------
(***************************************************************************)
(* Proofs about Layout, with Connections, for any servers and any number   *)
(* of requests in flight; about Theme, for any number of transitions under *)
(* way; about Editor, for any number of sessions, saves and scripts; and   *)
(* about the parts of the page together.                                   *)
(***************************************************************************)
EXTENDS FrontEnd, ConsoleProofs, FiniteSetTheorems, TLAPS

-----------------------------------------------------------------------------
(* Layout, and Connections within it. *)

(* The invariant.  While refreshes have not overlapped one is in flight at most, and    *)
(* unless the one that follows a save is to come, it is to the server in use.           *)

OneInFlight ==
    ~mixed => \A s, t \in Servers : asked[s] > 0 /\ asked[t] > 0 => s = t /\ asked[s] = 1

InFlightIsCurrent ==
    ~mixed /\ refreshTimers = 0 => \A s \in Servers : asked[s] > 0 => s = baseUrl

CloudInv == OneInFlight /\ InFlightIsCurrent /\ DevicesAreOfServer

CloudSpins ==
    /\ cloudStatus = "connecting" \/ loadingDevices => Refreshing
    /\ ~mixed => (loadingDevices <=> Refreshing)

LocalSpins ==
    /\ localStatus = "connecting" => checks > 0
    /\ mode = "local" => monitoring /\ localStatus # "idle"

LayoutInv == LayoutTypeOK /\ CloudInv /\ CloudSpins /\ LocalSpins /\ WorkspaceComesBack

LEMMA Spins == SpinnersEnd <=> CloudSpins /\ LocalSpins
  BY DEF SpinnersEnd, CloudSpins, LocalSpins

\* What the counters become.
LEMMA OneMore ==
    ASSUME NEW f \in [Servers -> Nat], NEW s \in Servers
    PROVE  LET g == [f EXCEPT ![s] = @ + 1] IN
           /\ g \in [Servers -> Nat] /\ g[s] = f[s] + 1 /\ g[s] > 0
           /\ \A t \in Servers : t # s => g[t] = f[t]
  OBVIOUS

LEMMA OneLess ==
    ASSUME NEW f \in [Servers -> Nat], NEW s \in Servers, f[s] > 0
    PROVE  LET g == [f EXCEPT ![s] = @ - 1] IN
           /\ g \in [Servers -> Nat] /\ g[s] = f[s] - 1
           /\ \A t \in Servers : t # s => g[t] = f[t]
           /\ \A t \in Servers : g[t] > 0 => f[t] > 0
  OBVIOUS

-----------------------------------------------------------------------------
(* The steps of the cloud's part. *)

LEMMA StartKeeps ==
    ASSUME ConnTypeOK, CloudInv, StartRefresh,
           UNCHANGED <<baseUrl, devicesOf>>, refreshTimers' \in Nat
    PROVE  asked' \in [Servers -> Nat] /\ CloudInv' /\ CloudSpins'
  <1> USE DEF ConnTypeOK
  <1>1. /\ asked' \in [Servers -> Nat] /\ asked'[baseUrl] = asked[baseUrl] + 1
        /\ asked'[baseUrl] > 0 /\ \A t \in Servers : t # baseUrl => asked'[t] = asked[t]
    BY OneMore DEF StartRefresh
  <1>2. CloudSpins'
    BY <1>1 DEF StartRefresh, CloudSpins, Refreshing
  <1>3. CASE Refreshing
    BY <1>1, <1>2, <1>3 DEF StartRefresh, CloudInv, OneInFlight, InFlightIsCurrent,
       DevicesAreOfServer
  <1>4. CASE ~Refreshing
    <2>1. \A t \in Servers : asked[t] = 0
      BY <1>4 DEF Refreshing
    <2>2. asked'[baseUrl] = 1 /\ \A t \in Servers : asked'[t] > 0 => t = baseUrl
      BY <1>1, <2>1
    <2> QED
      BY <1>1, <1>2, <2>2 DEF StartRefresh, CloudInv, OneInFlight, InFlightIsCurrent,
         DevicesAreOfServer
  <1> QED
    BY <1>3, <1>4

\* An answer takes its request out of flight; without overlap it was the only one.
LEMMA AnswerLeavesNone ==
    ASSUME ConnTypeOK, OneInFlight, NEW s \in Servers, Answered(s)
    PROVE  /\ asked' \in [Servers -> Nat]
           /\ \A t \in Servers : asked'[t] > 0 => asked[t] > 0
           /\ ~mixed => \A t \in Servers : asked'[t] = 0
  <1> USE DEF ConnTypeOK
  <1>1. /\ asked' \in [Servers -> Nat] /\ asked'[s] = asked[s] - 1
        /\ \A t \in Servers : t # s => asked'[t] = asked[t]
        /\ \A t \in Servers : asked'[t] > 0 => asked[t] > 0
    BY OneLess DEF Answered
  <1>2. ASSUME ~mixed, NEW t \in Servers PROVE asked'[t] = 0
    <2>1. asked[s] = 1 /\ (t # s => asked[t] = 0)
      BY <1>2 DEF Answered, OneInFlight
    <2> QED
      BY <1>1, <2>1
  <1> QED
    BY <1>1, <1>2

LEMMA AnswerKeeps ==
    ASSUME ConnTypeOK, CloudInv, NEW s \in Servers, RefreshSucceeds(s) \/ RefreshFails(s)
    PROVE  asked' \in [Servers -> Nat] /\ CloudInv' /\ CloudSpins'
  <1> USE DEF ConnTypeOK
  <1>1. /\ Answered(s) /\ UNCHANGED <<baseUrl, refreshTimers, mixed>>
        /\ loadingDevices' = FALSE /\ cloudStatus' # "connecting"
    BY DEF RefreshSucceeds, RefreshFails, Answered
  <1>2. /\ asked' \in [Servers -> Nat]
        /\ \A t \in Servers : asked'[t] > 0 => asked[t] > 0
        /\ ~mixed => \A t \in Servers : asked'[t] = 0
    BY <1>1, AnswerLeavesNone DEF CloudInv
  <1>3. OneInFlight' /\ InFlightIsCurrent' /\ CloudSpins'
    BY <1>1, <1>2 DEF OneInFlight, InFlightIsCurrent, CloudSpins, Refreshing
  <1>4. ~mixed /\ refreshTimers = 0 => s = baseUrl
    BY <1>1 DEF CloudInv, InFlightIsCurrent, Answered
  <1>5. DevicesAreOfServer'
    BY <1>1, <1>4 DEF RefreshSucceeds, RefreshFails, DevicesAreOfServer
  <1> QED
    BY <1>2, <1>3, <1>5 DEF CloudInv

LEMMA SaveKeeps ==
    ASSUME ConnTypeOK, CloudInv, CloudSpins, SaveConfig
    PROVE  CloudInv' /\ CloudSpins' /\ refreshTimers' \in Nat
  <1>1. /\ refreshTimers' \in Nat /\ refreshTimers' # 0
        /\ UNCHANGED <<asked, cloudStatus, loadingDevices, devicesOf, mixed>>
    BY DEF SaveConfig, ConnTypeOK
  <1>2. OneInFlight' /\ InFlightIsCurrent' /\ DevicesAreOfServer'
    BY <1>1 DEF CloudInv, OneInFlight, InFlightIsCurrent, DevicesAreOfServer
  <1>3. CloudSpins'
    BY <1>1 DEF CloudSpins, Refreshing
  <1> QED
    BY <1>1, <1>2, <1>3 DEF CloudInv

LEMMA CloudQuiet ==
    ASSUME CloudInv, CloudSpins, UNCHANGED cloudVars
    PROVE  CloudInv' /\ CloudSpins'
  BY DEF cloudVars, CloudInv, CloudSpins, OneInFlight, InFlightIsCurrent, DevicesAreOfServer,
     Refreshing

-----------------------------------------------------------------------------
(* The steps of Connections. *)

ConnInv == ConnTypeOK /\ CloudInv /\ CloudSpins /\ LocalSpins

LEMMA LocalQuiet ==
    ASSUME LocalSpins, UNCHANGED <<mode, localVars>> PROVE LocalSpins'
  BY DEF localVars, LocalSpins

DialogType == dialog \in [open : BOOLEAN, text : Servers \cup {Invalid}, error : BOOLEAN]

LEMMA RenderType == ASSUME ConnTypeOK, Render PROVE DialogType'
  BY DEF ConnTypeOK, Render, DialogType

LEMMA ConnStepInv ==
    ASSUME ConnInv, ConnStep PROVE ConnInv' /\ mode' = mode
  <1> USE DEF ConnInv, ConnTypeOK
  <1>1. CASE RefreshDevices
    <2>1. asked' \in [Servers -> Nat] /\ CloudInv' /\ CloudSpins'
      BY <1>1, StartKeeps DEF RefreshDevices
    <2>2. LocalSpins' /\ mode' = mode
      BY <1>1, LocalQuiet DEF RefreshDevices
    <2>3. DialogType'
      BY <1>1, RenderType DEF RefreshDevices
    <2> QED
      BY <1>1, <2>1, <2>2, <2>3 DEF RefreshDevices, StartRefresh, Refreshing, Status, localVars,
         DialogType
  <1>2. CASE RefreshTimerFires
    <2>1. asked' \in [Servers -> Nat] /\ CloudInv' /\ CloudSpins'
      BY <1>2, StartKeeps DEF RefreshTimerFires
    <2>2. LocalSpins' /\ mode' = mode
      BY <1>2, LocalQuiet DEF RefreshTimerFires
    <2>3. DialogType'
      BY <1>2, RenderType DEF RefreshTimerFires
    <2> QED
      BY <1>2, <2>1, <2>2, <2>3 DEF RefreshTimerFires, StartRefresh, Refreshing, Status, localVars,
         DialogType
  <1>3. CASE \E s \in Servers : RefreshSucceeds(s) \/ RefreshFails(s)
    <2>1. PICK s \in Servers : RefreshSucceeds(s) \/ RefreshFails(s)
      BY <1>3
    <2>2. asked' \in [Servers -> Nat] /\ CloudInv' /\ CloudSpins'
      BY <2>1, AnswerKeeps
    <2>3. LocalSpins' /\ mode' = mode
      BY <2>1, LocalQuiet DEF RefreshSucceeds, RefreshFails, Answered
    <2> QED
      BY <2>1, <2>2, <2>3 DEF RefreshSucceeds, RefreshFails, Answered, Render, Status, localVars
  <1>4. CASE SaveConfig
    <2>1. CloudInv' /\ CloudSpins' /\ LocalSpins' /\ refreshTimers' \in Nat
      BY <1>4, SaveKeeps, LocalQuiet DEF SaveConfig
    <2> QED
      BY <1>4, <2>1 DEF SaveConfig, localVars
  <1>5. CASE TypeUrl \/ CancelConfig \/ RefuseConfig
    <2>1. CloudInv' /\ CloudSpins' /\ LocalSpins' /\ mode' = mode
      BY <1>5, CloudQuiet, LocalQuiet DEF TypeUrl, CancelConfig, RefuseConfig
    <2>2. CASE TypeUrl
      <3>1. PICK u \in Servers \cup {Invalid} : dialog' = [dialog EXCEPT !.text = u, !.error = FALSE]
        BY <2>2 DEF TypeUrl
      <3> QED
        BY <2>1, <2>2, <3>1 DEF TypeUrl, cloudVars, localVars
    <2>3. CASE CancelConfig
      BY <2>1, <2>3 DEF CancelConfig, cloudVars, localVars
    <2>4. CASE RefuseConfig
      BY <2>1, <2>4 DEF RefuseConfig, cloudVars, localVars
    <2> QED
      BY <1>5, <2>2, <2>3, <2>4
  <1>6. CASE Check \/ CheckAnswered
    <2>1. CloudInv' /\ CloudSpins' /\ mode' = mode
      BY <1>6, CloudQuiet DEF Check, CheckAnswered
    <2>2. checks' \in Nat /\ LocalSpins'
      BY <1>6 DEF Check, CheckConnection, CheckAnswered, LocalSpins
    <2> QED
      BY <1>6, <2>1, <2>2 DEF Check, CheckConnection, CheckAnswered, Render, Status, cloudVars
  <1> QED
    BY <1>1, <1>2, <1>3, <1>4, <1>5, <1>6 DEF ConnStep

LEMMA OpenConfigInv ==
    ASSUME ConnInv, OpenConfig PROVE ConnInv' /\ mode' = mode
  <1> USE DEF ConnInv, ConnTypeOK
  <1>1. CloudInv' /\ CloudSpins' /\ LocalSpins' /\ mode' = mode
    BY CloudQuiet, LocalQuiet DEF OpenConfig
  <1> QED
    BY <1>1 DEF OpenConfig, cloudVars, localVars

LEMMA ToggleModeInv ==
    ASSUME ConnInv, ToggleMode PROVE ConnInv'
  <1> USE DEF ConnInv, ConnTypeOK
  <1>1. CASE ToggleToCloud
    <2>1. asked' \in [Servers -> Nat] /\ CloudInv' /\ CloudSpins'
      BY <1>1, StartKeeps DEF ToggleToCloud
    <2>2. LocalSpins'
      BY <1>1 DEF ToggleToCloud, LocalSpins
    <2>3. DialogType'
      BY <1>1, RenderType DEF ToggleToCloud
    <2> QED
      BY <1>1, <2>1, <2>2, <2>3 DEF ToggleToCloud, StartRefresh, Refreshing, Status, DialogType
  <1>2. CASE ToggleToLocal
    <2>1. CloudInv' /\ CloudSpins'
      BY <1>2, CloudQuiet DEF ToggleToLocal
    <2>2. checks' \in Nat /\ LocalSpins'
      BY <1>2 DEF ToggleToLocal, LocalSpins
    <2> QED
      BY <1>2, <2>1, <2>2 DEF ToggleToLocal, Render, Status, cloudVars
  <1> QED
    BY <1>1, <1>2 DEF ToggleMode

LEMMA ReloadPageInv ==
    ASSUME ConnInv, ReloadPage PROVE ConnInv'
  <1> USE DEF ConnInv, ConnTypeOK
  <1>1. /\ asked' \in [Servers -> Nat] /\ \A s \in Servers : asked'[s] = 0
        /\ mixed' = FALSE /\ loadingDevices' = FALSE /\ cloudStatus' = "idle"
    BY DEF ReloadPage
  <1>2. CloudInv' /\ CloudSpins'
    BY <1>1 DEF CloudInv, CloudSpins, OneInFlight, InFlightIsCurrent, DevicesAreOfServer,
       Refreshing
  <1>3. LocalSpins'
    BY DEF ReloadPage, LocalSpins
  <1>4. baseUrl' \in Servers
    BY ServersAssumption DEF ReloadPage, GetBaseUrl
  <1> QED
    BY <1>1, <1>2, <1>3, <1>4 DEF ReloadPage, Status

LEMMA ConnInitInv == ConnInit => ConnInv
  <1> SUFFICES ASSUME ConnInit PROVE ConnInv
    OBVIOUS
  <1>1. /\ asked \in [Servers -> Nat] /\ \A s \in Servers : asked[s] = 0
        /\ mixed = FALSE /\ loadingDevices = FALSE /\ cloudStatus = "idle"
    BY DEF ConnInit
  <1>2. CloudInv /\ CloudSpins
    BY <1>1 DEF CloudInv, CloudSpins, OneInFlight, InFlightIsCurrent, DevicesAreOfServer,
       Refreshing
  <1>3. LocalSpins
    BY DEF ConnInit, LocalSpins
  <1>4. baseUrl \in Servers
    BY ServersAssumption DEF ConnInit, GetBaseUrl
  <1> QED
    BY <1>1, <1>2, <1>3, <1>4 DEF ConnInv, ConnTypeOK, ConnInit, Status

-----------------------------------------------------------------------------
(* The layout. *)

LEMMA LayoutInvParts ==
    LayoutInv <=> /\ ConnInv /\ WorkspaceComesBack
                  /\ wide \in BOOLEAN /\ isDesktopXL \in BOOLEAN
                  /\ inlineExpanded \in BOOLEAN /\ widened \in BOOLEAN
  BY DEF LayoutInv, LayoutTypeOK, ConnInv

LEMMA LayoutInitInv == LayoutInit => LayoutInv
  BY ConnInitInv, LayoutInvParts DEF LayoutInit, WorkspaceComesBack, WorkspaceShown

LEMMA LayoutStepInv == LayoutInv /\ [LayoutNext]_frameVars => LayoutInv'
  <1> SUFFICES ASSUME LayoutInv, [LayoutNext]_frameVars PROVE LayoutInv'
    OBVIOUS
  <1>0. /\ ConnInv /\ WorkspaceComesBack
        /\ wide \in BOOLEAN /\ isDesktopXL \in BOOLEAN
        /\ inlineExpanded \in BOOLEAN /\ widened \in BOOLEAN
    BY LayoutInvParts
  <1> DEFINE Shape == /\ wide' \in BOOLEAN /\ isDesktopXL' \in BOOLEAN
                      /\ inlineExpanded' \in BOOLEAN /\ widened' \in BOOLEAN
                      /\ WorkspaceComesBack'
  <1> SUFFICES ConnInv' /\ Shape
    BY DEF LayoutInv, LayoutTypeOK, ConnInv
  <1>a. ASSUME UNCHANGED connVars PROVE ConnInv'
    BY <1>0, <1>a, CloudQuiet, LocalQuiet DEF ConnInv, ConnTypeOK, connVars, cloudVars, localVars
  <1>b. ASSUME UNCHANGED <<mode, cloudVars, localVars>>, Render PROVE ConnInv'
    BY <1>0, <1>b, CloudQuiet, LocalQuiet DEF ConnInv, ConnTypeOK, cloudVars, localVars, Render
  <1> USE DEF WorkspaceComesBack, WorkspaceShown, StripShown, layoutVars
  <1>1. CASE ConnStep /\ UNCHANGED layoutVars
    BY <1>0, <1>1, ConnStepInv
  <1>2. CASE Resize
    BY <1>0, <1>2, <1>a DEF Resize, connVars
  <1>3. CASE OnChange
    BY <1>0, <1>3, <1>b DEF OnChange
  <1>4. CASE ToggleInSidebar
    BY <1>0, <1>4, ToggleModeInv DEF ToggleInSidebar
  <1>5. CASE ToggleInTopbar
    BY <1>0, <1>5, ToggleModeInv DEF ToggleInTopbar
  <1>6. CASE ToggleStrip
    BY <1>0, <1>6, <1>b DEF ToggleStrip
  <1>7. CASE ConfigureCloud
    BY <1>0, <1>7, OpenConfigInv DEF ConfigureCloud
  <1>8. CASE ReloadLayout
    BY <1>0, <1>8, ReloadPageInv DEF ReloadLayout
  <1>9. CASE UNCHANGED frameVars
    BY <1>0, <1>9, <1>a DEF frameVars, connVars
  <1> QED
    BY <1>1, <1>2, <1>3, <1>4, <1>5, <1>6, <1>7, <1>8, <1>9 DEF LayoutNext

LEMMA LayoutInvariant == LayoutSpec => []LayoutInv
  <1>1. LayoutInv /\ [LayoutNext]_<<connVars, layoutVars>> => LayoutInv'
    BY LayoutStepInv DEF frameVars
  <1> QED
    BY <1>1, LayoutInitInv, PTL DEF LayoutSpec

\* The connections, the dialog and the layout keep their types.
THEOREM LayoutTypeCorrect == LayoutSpec => []LayoutTypeOK
  <1>1. LayoutInv => LayoutTypeOK
    BY DEF LayoutInv
  <1> QED
    BY <1>1, LayoutInvariant, PTL

\* The list of devices is that of the server in use whenever the page says "connected",
\* for any servers and any answers, unless refreshes overlapped (useCloudApi.ts 50-72).
THEOREM DevicesAreCurrent == LayoutSpec => []DevicesAreOfServer
  <1>1. LayoutInv => DevicesAreOfServer
    BY DEF LayoutInv, CloudInv
  <1> QED
    BY <1>1, LayoutInvariant, PTL

\* A spinner is only shown over a request in flight, whatever the number of them and of
\* mode switches (useCloudApi.ts 50-72, useLocalConnection.ts 24-60).
THEOREM SpinnersAreTrue == LayoutSpec => []SpinnersEnd
  <1>1. LayoutInv => SpinnersEnd
    BY Spins DEF LayoutInv
  <1> QED
    BY <1>1, LayoutInvariant, PTL

\* The workspace is hidden only with a way back, in every order of resizing, media
\* events and clicks, unless the page widened over an expanded strip (App.tsx 353-408).
THEOREM WorkspaceIsReachable == LayoutSpec => []WorkspaceComesBack
  <1>1. LayoutInv => WorkspaceComesBack
    BY DEF LayoutInv
  <1> QED
    BY <1>1, LayoutInvariant, PTL

-----------------------------------------------------------------------------
(* Theme. *)

\* Facts about sequences of themes: what the first and the last of them become.
LEMMA Queues ==
    ASSUME NEW q \in Seq(Themes), NEW t \in Themes
    PROVE  /\ Append(q, t) \in Seq(Themes) /\ Append(q, t) # <<>>
           /\ Len(Append(q, t)) = Len(q) + 1
           /\ Append(q, t)[Len(q) + 1] = t
           /\ \A k \in 1..Len(q) : Append(q, t)[k] = q[k]
           /\ q # <<>> => /\ Head(q) \in Themes /\ Head(q) = q[1] /\ Len(q) > 0
                          /\ Tail(q) \in Seq(Themes) /\ Len(Tail(q)) = Len(q) - 1
                          /\ \A k \in 1..Len(Tail(q)) : Tail(q)[k] = q[k + 1]
           /\ (q = <<>>) <=> (Len(q) = 0)
           /\ Len(q) \in Nat
  OBVIOUS

LEMMA NoQueue ==
    LET none == <<>> IN none \in Seq(Themes) /\ Len(none) = 0 /\ \A k \in DOMAIN none : FALSE
  OBVIOUS

LEMMA OneAndNone == ASSUME NEW a \in Nat, NEW b \in Nat, a > 0, a + b <= 1 PROVE a = 1 /\ b = 0
  OBVIOUS

\* A theme has another.
LEMMA Others == \A t \in Themes : Other(t) \in Themes /\ Other(t) # t /\ Other(Other(t)) = t
  BY DEF Other, Themes

-----------------------------------------------------------------------------
(* The invariant: the stored theme, unless the last was not kept, is the one that the   *)
(* last transition to end will set, or, without one, the state's; and while none        *)
(* overlap there is at most one.                                                        *)

StoredIsNext ==
    ~unkept => stored \in IF toggled = <<>> THEN {NoTheme, theme} ELSE {toggled[Len(toggled)]}

OneAtATime == ~overlapped => Len(opened) + Len(toggled) <= 1

ThemeInv == ThemeTypeOK /\ StoredIsNext /\ ThemeIsApplied /\ OneAtATime

LEMMA ThemeInitInv == ThemeInit => ThemeInv
  <1> SUFFICES ASSUME ThemeInit PROVE ThemeInv
    OBVIOUS
  <1>1. /\ opened = <<>> /\ toggled = <<>> /\ overlapped = FALSE
        /\ theme \in Themes /\ shownTheme = theme /\ stored \in {NoTheme, theme}
        /\ unkept = FALSE
    BY DEF ThemeInit
  <1>2. ThemeTypeOK
    BY <1>1, NoQueue DEF ThemeTypeOK
  <1>3. StoredIsNext
    BY <1>1 DEF StoredIsNext
  <1>4. ThemeIsApplied /\ OneAtATime
    BY <1>1, NoQueue DEF ThemeIsApplied, OneAtATime, AtRest
  <1> QED
    BY <1>2, <1>3, <1>4 DEF ThemeInv

LEMMA ReloadThemeInv == ThemeInv /\ ReloadTheme => ThemeInv'
  <1> SUFFICES ASSUME ThemeInv, ReloadTheme PROVE ThemeInv'
    OBVIOUS
  <1>1. /\ opened' = <<>> /\ toggled' = <<>> /\ overlapped' = FALSE
        /\ theme' \in Themes /\ shownTheme' = theme' /\ stored' \in {NoTheme, theme'}
        /\ unkept' = FALSE
    BY DEF ReloadTheme, StartTheme, ThemeInv, ThemeTypeOK
  <1>2. ThemeTypeOK'
    BY <1>1, NoQueue DEF ThemeTypeOK
  <1>3. StoredIsNext'
    BY <1>1 DEF StoredIsNext
  <1>4. ThemeIsApplied' /\ OneAtATime'
    BY <1>1, NoQueue DEF ThemeIsApplied, OneAtATime, AtRest
  <1> QED
    BY <1>2, <1>3, <1>4 DEF ThemeInv

LEMMA ToggleThemeInv == ThemeInv /\ ToggleTheme => ThemeInv'
  <1> SUFFICES ASSUME ThemeInv, ToggleTheme PROVE ThemeInv'
    OBVIOUS
  <1> USE DEF ThemeInv, ThemeTypeOK
  <1> DEFINE t == Other(shownTheme)
  <1>1. /\ t \in Themes /\ opened' = Append(opened, t)
        /\ UNCHANGED <<theme, shownTheme, stored, toggled, unkept>>
    BY Others DEF ToggleTheme
  <1>2. /\ opened' \in Seq(Themes) /\ opened' # <<>> /\ Len(opened') = Len(opened) + 1
        /\ opened'[Len(opened) + 1] = t /\ \A k \in 1..Len(opened) : opened'[k] = opened[k]
        /\ Len(toggled) \in Nat /\ Len(opened) \in Nat
        /\ opened = <<>> <=> Len(opened) = 0
        /\ toggled = <<>> <=> Len(toggled) = 0
    BY <1>1, Queues
  <1>3. ThemeTypeOK'
    BY <1>1, <1>2 DEF ToggleTheme, AtRest
  <1>4. StoredIsNext'
    BY <1>1 DEF StoredIsNext
  <1>6. OneAtATime'
    <2> SUFFICES ASSUME ~overlapped' PROVE Len(opened') + Len(toggled') <= 1
      BY DEF OneAtATime
    <2>1. AtRest
      BY DEF ToggleTheme
    <2> QED
      BY <1>1, <1>2, <2>1 DEF AtRest
  <1>7. ThemeIsApplied'
    <2> SUFFICES ASSUME ~overlapped' PROVE ThemeIsApplied'
      BY DEF ThemeIsApplied
    <2>1. AtRest /\ ~overlapped
      BY DEF ToggleTheme
    <2>2. shownTheme = theme /\ t # theme
      BY <2>1, Others DEF ThemeIsApplied
    <2>3. opened' = <<t>> /\ toggled' = <<>>
      BY <1>1, <2>1 DEF AtRest
    <2> QED
      BY <1>1, <2>2, <2>3 DEF ThemeIsApplied, AtRest
  <1> QED
    BY <1>3, <1>4, <1>6, <1>7

LEMMA CallbackInv == ThemeInv /\ TransitionCallback => ThemeInv'
  <1> SUFFICES ASSUME ThemeInv, TransitionCallback PROVE ThemeInv'
    OBVIOUS
  <1> USE DEF ThemeInv, ThemeTypeOK
  <1> DEFINE t == Head(opened)
  <1>1. /\ opened # <<>> /\ t \in Themes /\ t = opened[1]
        /\ opened' = Tail(opened) /\ toggled' = Append(toggled, t)
        /\ stored' \in {stored, t} /\ unkept' \in BOOLEAN /\ (~unkept' => stored' = t)
        /\ shownTheme' \in Themes /\ UNCHANGED <<theme, overlapped>>
    BY Queues, Others DEF TransitionCallback, Store
  <1>2. /\ opened' \in Seq(Themes) /\ toggled' \in Seq(Themes) /\ toggled' # <<>>
        /\ Len(opened') = Len(opened) - 1 /\ Len(toggled') = Len(toggled) + 1
        /\ Len(toggled) \in Nat /\ Len(opened) \in Nat
        /\ toggled'[Len(toggled) + 1] = t
    BY <1>1, Queues
  <1>3. ThemeTypeOK'
    BY <1>1, <1>2
  <1>4. StoredIsNext'
    BY <1>1, <1>2 DEF StoredIsNext
  <1>6. OneAtATime'
    BY <1>1, <1>2 DEF OneAtATime
  <1>7. ThemeIsApplied'
    <2> SUFFICES ASSUME ~overlapped PROVE ThemeIsApplied'
      BY <1>1 DEF ThemeIsApplied
    <2>1. Len(opened) > 0 /\ Len(opened) \in Nat /\ Len(toggled) \in Nat
          /\ (toggled = <<>> <=> Len(toggled) = 0)
      BY <1>1, Queues
    <2>2. Len(opened) + Len(toggled) <= 1
      BY DEF OneAtATime
    <2>3. Len(opened) = 1 /\ Len(toggled) = 0
      BY ONLY <2>1, <2>2, OneAndNone
    <2>4. toggled = <<>> /\ Len(opened) = 1
      BY ONLY <2>1, <2>3
    <2>5. opened' = <<>> /\ toggled' = <<t>>
      BY <1>1, <2>4
    <2>6. t # theme
      BY <1>1, <2>4 DEF ThemeIsApplied
    <2> QED
      BY <1>1, <2>5, <2>6 DEF ThemeIsApplied, AtRest
  <1> QED
    BY <1>3, <1>4, <1>6, <1>7

LEMMA FinishedInv == ThemeInv /\ TransitionFinished => ThemeInv'
  <1> SUFFICES ASSUME ThemeInv, TransitionFinished PROVE ThemeInv'
    OBVIOUS
  <1> USE DEF ThemeInv, ThemeTypeOK
  <1> DEFINE t == Head(toggled)
  <1>1. /\ toggled # <<>> /\ t \in Themes /\ t = toggled[1] /\ Len(toggled) > 0
        /\ toggled' = Tail(toggled) /\ theme' = t
        /\ shownTheme' = IF t = theme THEN shownTheme ELSE t
        /\ UNCHANGED <<stored, opened, overlapped, unkept>>
    BY Queues DEF TransitionFinished
  <1>2. /\ toggled' \in Seq(Themes) /\ Len(toggled') = Len(toggled) - 1
        /\ Len(toggled) \in Nat /\ Len(opened) \in Nat /\ Len(toggled') \in Nat
        /\ \A k \in 1..Len(toggled') : toggled'[k] = toggled[k + 1]
        /\ toggled' = <<>> <=> Len(toggled') = 0
    BY <1>1, Queues
  <1>3. ThemeTypeOK'
    BY <1>1, <1>2
  <1>4. StoredIsNext'
    <2>1. ~unkept => stored = toggled[Len(toggled)]
      BY <1>1 DEF StoredIsNext
    <2>2. CASE toggled' = <<>>
      BY <1>1, <1>2, <2>1, <2>2 DEF StoredIsNext
    <2>3. CASE toggled' # <<>>
      BY <1>1, <1>2, <2>1, <2>3 DEF StoredIsNext
    <2> QED
      BY <2>2, <2>3
  <1>6. OneAtATime'
    BY <1>1, <1>2 DEF OneAtATime
  <1>7. ThemeIsApplied'
    <2> SUFFICES ASSUME ~overlapped PROVE ThemeIsApplied'
      BY <1>1 DEF ThemeIsApplied
    <2>1. Len(toggled) = 1 /\ opened = <<>>
      BY <1>1, <1>2, Queues DEF OneAtATime
    <2>2. toggled' = <<>> /\ t # theme
      BY <1>1, <1>2, <2>1 DEF ThemeIsApplied
    <2> QED
      BY <1>1, <2>1, <2>2 DEF ThemeIsApplied, AtRest
  <1> QED
    BY <1>3, <1>4, <1>6, <1>7

LEMMA AtOnceInv == ThemeInv /\ ToggleThemeAtOnce => ThemeInv'
  <1> SUFFICES ASSUME ThemeInv, ToggleThemeAtOnce PROVE ThemeInv'
    OBVIOUS
  <1> USE DEF ThemeInv, ThemeTypeOK
  <1> DEFINE t == Other(shownTheme)
  <1>1. /\ t \in Themes /\ theme' = t /\ shownTheme' = t
        /\ UNCHANGED <<opened, toggled>> /\ overlapped' = ~AtRest
        /\ \/ stored' = t /\ unkept' = ~(toggled = <<>>)
           \/ stored' = stored /\ unkept' = TRUE
    BY Others DEF ToggleThemeAtOnce, Store
  <1>2. ThemeTypeOK'
    BY <1>1 DEF AtRest
  <1>3. StoredIsNext'
    BY <1>1 DEF StoredIsNext
  <1>4. ASSUME ~overlapped' PROVE opened' = <<>> /\ toggled' = <<>>
    BY <1>1, <1>4 DEF AtRest
  <1>5. ThemeIsApplied' /\ OneAtATime'
    BY <1>1, <1>4, NoQueue DEF ThemeIsApplied, OneAtATime
  <1> QED
    BY <1>2, <1>3, <1>5

LEMMA ThemeStepInv == ThemeInv /\ [ThemeNext]_themeVars => ThemeInv'
  <1> SUFFICES ASSUME ThemeInv, [ThemeNext]_themeVars PROVE ThemeInv'
    OBVIOUS
  <1>1. CASE ToggleTheme
    BY <1>1, ToggleThemeInv
  <1>2. CASE TransitionCallback
    BY <1>2, CallbackInv
  <1>3. CASE TransitionFinished
    BY <1>3, FinishedInv
  <1>4. CASE ToggleThemeAtOnce
    BY <1>4, AtOnceInv
  <1>5. CASE RenderTheme
    BY <1>5 DEF RenderTheme, ThemeInv, ThemeTypeOK, StoredIsNext, ThemeIsApplied,
       OneAtATime, AtRest
  <1>6. CASE ReloadTheme
    BY <1>6, ReloadThemeInv
  <1>7. CASE UNCHANGED themeVars
    BY <1>7 DEF themeVars, ThemeInv, ThemeTypeOK, StoredIsNext, ThemeIsApplied, OneAtATime,
       AtRest
  <1> QED
    BY <1>1, <1>2, <1>3, <1>4, <1>5, <1>6, <1>7 DEF ThemeNext

\* The theme's state and the transitions under way keep their types (App.tsx 18-26).
THEOREM ThemeTypeCorrect == ThemeSpec => []ThemeTypeOK
  <1>1. ThemeInv => ThemeTypeOK
    BY DEF ThemeInv
  <1> QED
    BY <1>1, ThemeInitInv, ThemeStepInv, PTL DEF ThemeSpec

\* A reload keeps the theme, however many transitions overlapped with each other and with
\* clicks without one, unless localStorage refused it, or such a click came between the
\* callback and the end of a transition (App.tsx 409-460).
THEOREM ThemeSurvivesReload == ThemeSpec => []StoredThemeIsKept
  <1>1. ThemeInv => StoredThemeIsKept
    BY DEF ThemeInv, StoredIsNext, StoredThemeIsKept, AtRest
  <1> QED
    BY <1>1, ThemeInitInv, ThemeStepInv, PTL DEF ThemeSpec

\* A click that overlaps with no other changes the theme, and the document shows it in
\* the end, whenever the page was rendered meanwhile (App.tsx 328-333, 409-460).
THEOREM ThemeClickApplies == ThemeSpec => []ThemeIsApplied
  <1>1. ThemeInv => ThemeIsApplied
    BY DEF ThemeInv
  <1> QED
    BY <1>1, ThemeInitInv, ThemeStepInv, PTL DEF ThemeSpec

-----------------------------------------------------------------------------
(* Editor. *)

(* The invariant.  A session has saves in flight only if it is open or over, and none   *)
(* but hidden ones were written while it is open; what is in flight and what was        *)
(* written is one save, and those hidden, unless Save was pressed again; and a save     *)
(* that is not the open session's was in flight when that began.                        *)

SessionTypes ==
    /\ current \in Sessions \cup {NoSession}
    /\ saves \in [Sessions -> Nat]
    /\ written \in [Sessions -> Nat] /\ hidden \in [Sessions -> Nat]
    /\ over \in [Sessions -> {"no", "cancelled", "answered"}]

OpenIsNotOver == current \in Sessions => over[current] = "no"
SavesAreOfSessions == \A s \in Sessions : saves[s] > 0 => s = current \/ over[s] # "no"
WrittenIsOver == \A s \in Sessions : written[s] > hidden[s] => over[s] # "no"
OneSave == \A s \in Sessions : s \in hurried \/ saves[s] + written[s] <= 1 + hidden[s]
OthersCrowd ==
    current \in Sessions =>
        \A s \in Sessions : saves[s] > 0 /\ s # current => current \in crowded

EditorInv ==
    /\ SessionTypes /\ OpenIsNotOver /\ SavesAreOfSessions /\ WrittenIsOver
    /\ OneSave /\ OthersCrowd

LEMMA EditorInitInv == EditorInit => EditorInv
  BY DEF EditorInit, EditorInv, SessionTypes, OpenIsNotOver, SavesAreOfSessions, WrittenIsOver,
     OneSave, OthersCrowd

\* How the counters change.
LEMMA OneMoreSave ==
    ASSUME NEW f \in [Sessions -> Nat], NEW s \in Sessions
    PROVE  LET g == [f EXCEPT ![s] = @ + 1] IN
           /\ g \in [Sessions -> Nat] /\ g[s] = f[s] + 1
           /\ \A t \in Sessions : t # s => g[t] = f[t]
  OBVIOUS

LEMMA OneSaveLess ==
    ASSUME NEW f \in [Sessions -> Nat], NEW s \in Sessions, f[s] > 0
    PROVE  LET g == [f EXCEPT ![s] = @ - 1] IN
           /\ g \in [Sessions -> Nat] /\ g[s] = f[s] - 1
           /\ \A t \in Sessions : t # s => g[t] = f[t]
  OBVIOUS

-----------------------------------------------------------------------------
(* The steps. *)

LEMMA OpenInv ==
    ASSUME EditorInv, NEW s \in Sessions, NEW f, OpenEditor(s, f) PROVE EditorInv'
  <1> USE SessionsAssumption DEF EditorInv, SessionTypes
  <1>1. /\ current' = s /\ over[s] = "no" /\ UNCHANGED <<saves, over, written, hidden, hurried>>
        /\ crowded \subseteq crowded' /\ (Saving => s \in crowded')
    BY DEF OpenEditor
  <1>2. \A t \in Sessions : saves[t] > 0 => over[t] # "no"
    BY DEF OpenEditor, SavesAreOfSessions
  <1>3. SessionTypes' /\ OpenIsNotOver' /\ SavesAreOfSessions' /\ WrittenIsOver' /\ OneSave'
    BY <1>1, <1>2 DEF OpenIsNotOver, SavesAreOfSessions, WrittenIsOver, OneSave
  <1>4. OthersCrowd'
    BY <1>1 DEF OthersCrowd, Saving
  <1> QED
    BY <1>3, <1>4

LEMMA QuietInv ==
    ASSUME EditorInv, UNCHANGED <<current, saves, over, written, hidden, hurried, crowded>>
    PROVE  EditorInv'
  BY DEF EditorInv, SessionTypes, OpenIsNotOver, SavesAreOfSessions, WrittenIsOver,
     OneSave, OthersCrowd

LEMMA SendInv == ASSUME EditorInv, HandleSave PROVE EditorInv'
  <1> USE SessionsAssumption DEF EditorInv, SessionTypes
  <1>1. /\ current \in Sessions /\ saves' = [saves EXCEPT ![current] = @ + 1]
        /\ UNCHANGED <<current, over, written, hidden, crowded>>
        /\ hurried \subseteq hurried' /\ (saves[current] > 0 => current \in hurried')
    BY DEF HandleSave, SendForm
  <1>2. /\ saves' \in [Sessions -> Nat] /\ saves'[current] = saves[current] + 1
        /\ \A t \in Sessions : t # current => saves'[t] = saves[t]
    BY <1>1, OneMoreSave
  <1>3. SessionTypes' /\ OpenIsNotOver' /\ SavesAreOfSessions' /\ WrittenIsOver' /\ OthersCrowd'
    BY <1>1, <1>2 DEF OpenIsNotOver, SavesAreOfSessions, WrittenIsOver, OthersCrowd
  <1>4. OneSave'
    <2>1. written[current] <= hidden[current]
      BY <1>1 DEF OpenIsNotOver, WrittenIsOver
    <2> SUFFICES ASSUME NEW t \in Sessions, t \notin hurried'
                 PROVE  saves'[t] + written'[t] <= 1 + hidden'[t]
      BY DEF OneSave
    <2>2. CASE t = current
      BY <1>1, <1>2, <2>1, <2>2
    <2>3. CASE t # current
      BY <1>1, <1>2, <2>3 DEF OneSave
    <2> QED
      BY <2>2, <2>3
  <1> QED
    BY <1>3, <1>4

LEMMA CloseFacts ==
    ASSUME SessionTypes, OpenIsNotOver, NEW how \in {"cancelled", "answered"}, Close(how)
    PROVE  /\ current' = NoSession /\ UNCHANGED <<hidden, hurried, crowded>>
           /\ over' \in [Sessions -> {"no", "cancelled", "answered"}]
           /\ \A s \in Sessions : s # current => over'[s] = over[s]
           /\ \A s \in Sessions : s = current => over'[s] = how
           /\ \A s \in Sessions : over[s] # "no" => over'[s] = over[s]
  BY SessionsAssumption DEF SessionTypes, OpenIsNotOver, Close

LEMMA CancelInv == ASSUME EditorInv, OnCancel PROVE EditorInv'
  <1> USE SessionsAssumption DEF EditorInv, SessionTypes
  <1>1. /\ current' = NoSession /\ UNCHANGED <<saves, written, hidden, hurried, crowded>>
        /\ over' \in [Sessions -> {"no", "cancelled", "answered"}]
        /\ \A s \in Sessions : s # current => over'[s] = over[s]
        /\ \A s \in Sessions : s = current => over'[s] = "cancelled"
        /\ \A s \in Sessions : over[s] # "no" => over'[s] = over[s]
    BY CloseFacts DEF OnCancel
  <1> QED
    BY <1>1 DEF OpenIsNotOver, SavesAreOfSessions, WrittenIsOver, OneSave, OthersCrowd

LEMMA SavedInv == ASSUME EditorInv, NEW s \in Sessions, SaveSucceeds(s) PROVE EditorInv'
  <1> USE SessionsAssumption DEF EditorInv, SessionTypes
  <1>1. /\ current' = NoSession /\ UNCHANGED <<hidden, hurried, crowded>>
        /\ over' \in [Sessions -> {"no", "cancelled", "answered"}]
        /\ \A t \in Sessions : t # current => over'[t] = over[t]
        /\ \A t \in Sessions : t = current => over'[t] = "answered"
        /\ \A t \in Sessions : over[t] # "no" => over'[t] = over[t]
    BY CloseFacts DEF SaveSucceeds
  <1>2. /\ saves[s] > 0
        /\ saves' \in [Sessions -> Nat] /\ saves'[s] = saves[s] - 1
        /\ \A t \in Sessions : t # s => saves'[t] = saves[t]
        /\ written' \in [Sessions -> Nat] /\ written'[s] = written[s] + 1
        /\ \A t \in Sessions : t # s => written'[t] = written[t]
    BY OneMoreSave, OneSaveLess DEF SaveSucceeds
  <1>3. over'[s] # "no"
    BY <1>1, <1>2 DEF SavesAreOfSessions
  <1>4. SessionTypes' /\ OpenIsNotOver' /\ OthersCrowd'
    BY <1>1, <1>2 DEF OpenIsNotOver, OthersCrowd
  <1>5. SavesAreOfSessions' /\ WrittenIsOver'
    <2>1. ASSUME NEW t \in Sessions, saves'[t] > 0 \/ written'[t] > hidden'[t] PROVE over'[t] # "no"
      <3>1. CASE t = s
        BY <1>3, <3>1
      <3>2. CASE t # s
        BY <1>1, <1>2, <2>1, <3>2 DEF SavesAreOfSessions, WrittenIsOver
      <3> QED
        BY <3>1, <3>2
    <2> QED
      BY <2>1 DEF SavesAreOfSessions, WrittenIsOver
  <1>6. OneSave'
    <2> SUFFICES ASSUME NEW t \in Sessions, t \notin hurried'
                 PROVE  saves'[t] + written'[t] <= 1 + hidden'[t]
      BY DEF OneSave
    <2>1. saves[t] + written[t] <= 1 + hidden[t] /\ hidden' = hidden
      BY <1>1 DEF OneSave
    <2>2. CASE t = s
      BY <1>2, <2>1, <2>2
    <2>3. CASE t # s
      BY <1>2, <2>1, <2>3
    <2> QED
      BY <2>2, <2>3
  <1> QED
    BY <1>4, <1>5, <1>6

LEMMA FailedInv == ASSUME EditorInv, NEW s \in Sessions, SaveFails(s) PROVE EditorInv'
  <1> USE DEF EditorInv, SessionTypes
  <1>1. /\ saves[s] > 0 /\ UNCHANGED <<current, over, hurried, crowded>>
        /\ saves' \in [Sessions -> Nat] /\ saves'[s] = saves[s] - 1
        /\ \A t \in Sessions : t # s => saves'[t] = saves[t]
    BY OneSaveLess DEF SaveFails
  <1>2. \A t \in Sessions : saves'[t] <= saves[t]
    BY <1>1
  <1>3. /\ written' \in [Sessions -> Nat] /\ hidden' \in [Sessions -> Nat]
        /\ \A t \in Sessions :
              \/ written'[t] = written[t] /\ hidden'[t] = hidden[t]
              \/ written'[t] = written[t] + 1 /\ hidden'[t] = hidden[t] + 1
    <2>1. CASE UNCHANGED <<written, hidden>>
      BY <2>1
    <2>2. CASE /\ hidden' = [hidden EXCEPT ![s] = @ + 1]
               /\ written' = [written EXCEPT ![s] = @ + 1]
      BY <2>2, OneMoreSave
    <2> QED
      BY <2>1, <2>2 DEF SaveFails
  <1>4. OneSave'
    <2> SUFFICES ASSUME NEW t \in Sessions, t \notin hurried
                 PROVE  saves'[t] + written'[t] <= 1 + hidden'[t]
      BY <1>1 DEF OneSave
    <2>1. saves[t] + written[t] <= 1 + hidden[t]
      BY DEF OneSave
    <2>2. saves'[t] <= saves[t]
      BY <1>2
    <2> QED
      BY <1>1, <1>3, <2>1, <2>2
  <1>5. WrittenIsOver'
    BY <1>1, <1>3 DEF WrittenIsOver
  <1> QED
    BY <1>1, <1>2, <1>3, <1>4, <1>5 DEF OpenIsNotOver, SavesAreOfSessions, OthersCrowd

LEMMA EditorStepInv == EditorInv /\ [EditorNext]_editorVars => EditorInv'
  <1> SUFFICES ASSUME EditorInv, [EditorNext]_editorVars PROVE EditorInv'
    OBVIOUS
  <1>1. ASSUME NEW s \in Sessions, HandleCreate(s) PROVE EditorInv'
    BY <1>1, OpenInv DEF HandleCreate
  <1>2. ASSUME NEW s \in Sessions, HandleEdit(s) PROVE EditorInv'
    BY <1>2, OpenInv DEF HandleEdit
  <1>3. CASE SetName \/ AddScript \/ UpdateScript \/ RemoveScript
    BY <1>3, QuietInv DEF SetName, AddScript, UpdateScript, RemoveScript, Change
  <1>4. CASE UNCHANGED editorVars
    BY <1>4, QuietInv DEF editorVars
  <1> QED
    BY <1>1, <1>2, <1>3, <1>4, SendInv, CancelInv, SavedInv, FailedInv DEF EditorNext

LEMMA EditorInvariant == EditorSpec => []EditorInv
  BY EditorInitInv, EditorStepInv, PTL DEF EditorSpec

\* One editor is saved once however often its saves fail, unless Save was pressed again
\* before the answer, or after a failure that hid a saved set (CommandSetEditor.tsx 28-43,
\* App.tsx 126-146, storage.go 109-111).
THEOREM OneSetEach == EditorSpec => []OneSetPerEditor
  <1>1. EditorInv => OneSetPerEditor
    <2> SUFFICES ASSUME EditorInv, NEW s \in Sessions, s \notin hurried
                 PROVE  written[s] <= 1 + hidden[s]
      BY DEF OneSetPerEditor
    <2>1. /\ saves[s] \in Nat /\ written[s] \in Nat /\ hidden[s] \in Nat
          /\ saves[s] + written[s] <= 1 + hidden[s]
      BY DEF EditorInv, SessionTypes, OneSave
    <2> QED
      BY <2>1
  <1> QED
    BY <1>1, EditorInvariant, PTL

-----------------------------------------------------------------------------
(* What is typed and what is sent. *)

FormTypes ==
    /\ form \in Forms /\ sent \in Forms \cup {NoForm}
    /\ hurried \subseteq Sessions /\ crowded \subseteq Sessions /\ typedLate \subseteq Sessions

\* While saves of the open editor are in flight, it holds what they ask to save, unless
\* it was changed since.
SentIsHeld ==
    current \in Sessions /\ saves[current] > 0 /\ current \notin typedLate => sent = form

FormInv == EditorInv /\ FormTypes /\ SentIsComplete /\ SentIsHeld

\* So many are the first n numbers.
LEMMA CountTo == \A n \in Nat : Cardinality(1..n) = n
  <1> SUFFICES ASSUME NEW n \in Nat PROVE Cardinality(1..n) = n
    OBVIOUS
  <1>1. 1 \in Int /\ n \in Int
    OBVIOUS
  <1>2. Cardinality(1..n) = IF 1 > n THEN 0 ELSE n - 1 + 1
    BY ONLY <1>1, FS_Interval
  <1> QED
    BY <1>2

\* Of scripts that are all filled in, all are kept.
LEMMA AllFilledIn ==
    ASSUME NEW scripts \in Seq(Texts), \A k \in DOMAIN scripts : scripts[k] # "blank"
    PROVE  FilledIn(scripts) = scripts
  <1> DEFINE kept == {k \in DOMAIN scripts : scripts[k] # "blank"}
             Nth(n) == CHOOSE k \in kept : Cardinality({j \in kept : j <= k}) = n
             L == Len(scripts)
  <1>1. L \in Nat /\ kept = 1..L /\ DOMAIN scripts = 1..L
    OBVIOUS
  <1>2. Cardinality(kept) = L
    <2> HIDE DEF kept, L
    <2> QED
      BY <1>1, CountTo
  <1>3. ASSUME NEW n \in 1..L PROVE Nth(n) = n
    <2>1. \A k \in kept : Cardinality({j \in kept : j <= k}) = k
      <3> SUFFICES ASSUME NEW k \in 1..L PROVE Cardinality({j \in 1..L : j <= k}) = k
        BY <1>1
      <3>1. {j \in 1..L : j <= k} = 1..k
        BY <1>1
      <3>2. k \in Nat
        BY <1>1
      <3> QED
        BY ONLY <3>1, <3>2, CountTo
    <2> HIDE DEF kept
    <2> QED
      BY <1>1, <1>3, <2>1
  <1>4. FilledIn(scripts) = [n \in 1..Cardinality(kept) |-> scripts[Nth(n)]]
    BY DEF FilledIn
  <1> HIDE DEF kept, Nth
  <1>5. FilledIn(scripts) = [n \in 1..L |-> scripts[n]]
    BY <1>2, <1>3, <1>4
  <1> HIDE DEF L
  <1> QED
    BY <1>1, <1>5

\* What the form becomes when one of its scripts is added, edited or removed.
LEMMA FormFacts ==
    ASSUME NEW f \in Forms
    PROVE  /\ f.name \in Texts /\ f.scripts \in Seq(Texts)
           /\ \A scripts \in Seq(Texts) : [f EXCEPT !.scripts = scripts] \in Forms
           /\ \A name \in Texts : [f EXCEPT !.name = name] \in Forms
           /\ \A text \in Texts, k \in DOMAIN f.scripts : [f EXCEPT !.scripts[k] = text] \in Forms
           /\ [f EXCEPT !.scripts = Append(@, "blank")] \in Forms
  <1>1. f.name \in Texts /\ f.scripts \in Seq(Texts) /\ "blank" \in Texts
    BY DEF Forms, Texts
  <1>2. \A scripts \in Seq(Texts) : [f EXCEPT !.scripts = scripts] \in Forms
    BY DEF Forms
  <1>3. \A name \in Texts : [f EXCEPT !.name = name] \in Forms
    BY DEF Forms
  <1>4. Append(f.scripts, "blank") \in Seq(Texts)
    BY <1>1
  <1>5. \A text \in Texts, k \in DOMAIN f.scripts : [f.scripts EXCEPT ![k] = text] \in Seq(Texts)
    BY <1>1
  <1> QED
    BY <1>1, <1>2, <1>3, <1>4, <1>5

LEMMA Shorter ==
    ASSUME NEW scripts \in Seq(Texts), NEW k \in DOMAIN scripts
    PROVE  [j \in 1..(Len(scripts) - 1) |-> IF j < k THEN scripts[j] ELSE scripts[j + 1]] \in Seq(Texts)
  <1>1. Len(scripts) \in Nat \ {0} /\ \A j \in 1..Len(scripts) : scripts[j] \in Texts
    OBVIOUS
  <1>2. \A j \in 1..(Len(scripts) - 1) : (IF j < k THEN scripts[j] ELSE scripts[j + 1]) \in Texts
    BY <1>1
  <1> QED
    BY <1>1, <1>2

LEMMA EmptyForms == NewForm \in Forms /\ NoForm \notin Forms
  BY DEF NewForm, NoForm, Forms, Texts

\* A form that is sent is complete: the handler wants all scripts filled in, and the button
\* wants one.
LEMMA SendComplete ==
    ASSUME FormInv, HandleSave PROVE FormTypes' /\ SentIsComplete' /\ SentIsHeld'
  <1>1. /\ current \in Sessions /\ form' = form /\ UNCHANGED <<crowded, typedLate>>
        /\ hurried' \in {hurried, hurried \cup {current}}
        /\ sent' = [form EXCEPT !.scripts = FilledIn(form.scripts)]
        /\ form \in Forms
    BY DEF HandleSave, SendForm, FormInv, EditorInv, SessionTypes, FormTypes
  <1>2. /\ form.name # "blank" /\ form.scripts \in Seq(Texts)
        /\ \A k \in DOMAIN form.scripts : form.scripts[k] # "blank"
        /\ \E k \in DOMAIN form.scripts : form.scripts[k] # "blank"
    BY <1>1, FormFacts DEF HandleSave, CanSave, Complete
  <1>3. FilledIn(form.scripts) = form.scripts
    BY <1>2, AllFilledIn
  <1>4. sent' = form
    BY <1>1, <1>3 DEF Forms
  <1>5. FormTypes'
    BY <1>1, <1>4 DEF FormTypes, FormInv
  <1>6. Len(form.scripts) > 0
    BY <1>2
  <1>7. SentIsComplete'
    BY <1>2, <1>4, <1>6 DEF SentIsComplete
  <1>8. SentIsHeld'
    BY <1>1, <1>4 DEF SentIsHeld
  <1> QED
    BY <1>5, <1>7, <1>8

\* A change while a save is in flight is remembered.
LEMMA ChangeKeeps ==
    ASSUME FormInv, NEW f \in Forms, Change(f)
    PROVE  FormTypes' /\ SentIsComplete' /\ SentIsHeld'
  <1>1. /\ current \in Sessions /\ form' = f
        /\ UNCHANGED <<current, saves, sent, hurried, crowded>>
        /\ typedLate' \subseteq Sessions /\ (saves[current] > 0 => current \in typedLate')
    BY DEF Change, FormInv, EditorInv, SessionTypes, FormTypes
  <1> QED
    BY <1>1 DEF FormInv, FormTypes, SentIsComplete, SentIsHeld

\* An editor has no save in flight when it is opened.
LEMMA OpenKeeps ==
    ASSUME FormInv, NEW s \in Sessions, NEW f \in Forms, OpenEditor(s, f)
    PROVE  FormTypes' /\ SentIsComplete' /\ SentIsHeld'
  <1>1. /\ current = NoSession /\ over[s] = "no" /\ current' = s /\ form' = f
        /\ UNCHANGED <<saves, sent, hurried, typedLate>> /\ crowded' \subseteq Sessions
    BY DEF OpenEditor, FormInv, FormTypes
  <1>2. ~(saves[s] > 0)
    BY <1>1, SessionsAssumption DEF FormInv, EditorInv, SavesAreOfSessions
  <1> QED
    BY <1>1, <1>2 DEF FormInv, FormTypes, SentIsComplete, SentIsHeld

LEMMA FailKeeps ==
    ASSUME FormInv, NEW s \in Sessions, SaveFails(s)
    PROVE  FormTypes' /\ SentIsComplete' /\ SentIsHeld'
  <1>1. /\ UNCHANGED <<current, form, sent, hurried, crowded>> /\ typedLate' \subseteq Sessions
        /\ saves[s] > 0 /\ saves[s] \in Nat /\ saves'[s] = saves[s] - 1
        /\ \A t \in Sessions : t # s => saves'[t] = saves[t]
        /\ typedLate' = IF saves[s] = 1 THEN typedLate \ {s} ELSE typedLate
    BY OneSaveLess DEF SaveFails, FormInv, EditorInv, SessionTypes, FormTypes
  <1>2. SentIsHeld'
    <2> SUFFICES ASSUME current \in Sessions, saves'[current] > 0, current \notin typedLate'
                 PROVE  sent = form
      BY <1>1 DEF SentIsHeld
    <2>1. saves[current] > 0 /\ current \notin typedLate
      BY <1>1
    <2> QED
      BY <2>1 DEF FormInv, SentIsHeld
  <1> QED
    BY <1>1, <1>2 DEF FormInv, FormTypes, SentIsComplete

LEMMA FormStepInv == FormInv /\ [EditorNext]_editorVars => FormInv'
  <1> SUFFICES ASSUME FormInv, [EditorNext]_editorVars
               PROVE  FormTypes' /\ SentIsComplete' /\ SentIsHeld'
    BY EditorStepInv DEF FormInv
  <1>1. ASSUME NEW s \in Sessions, HandleCreate(s) PROVE FormTypes' /\ SentIsComplete' /\ SentIsHeld'
    BY <1>1, OpenKeeps, EmptyForms DEF HandleCreate
  <1>2. ASSUME NEW s \in Sessions, HandleEdit(s) PROVE FormTypes' /\ SentIsComplete' /\ SentIsHeld'
    <2>1. PICK n \in 0..MaxScripts, name \in Texts : \E scripts \in [1..n -> Texts] :
            OpenEditor(s, [name |-> name, scripts |-> scripts])
      BY <1>2 DEF HandleEdit
    <2>2. PICK scripts \in [1..n -> Texts] : OpenEditor(s, [name |-> name, scripts |-> scripts])
      BY <2>1
    <2>3. [name |-> name, scripts |-> scripts] \in Forms
      BY DEF Forms
    <2> QED
      BY <2>2, <2>3, OpenKeeps
  <1>3. CASE SetName \/ AddScript \/ UpdateScript
    BY <1>3, FormFacts, ChangeKeeps DEF SetName, AddScript, UpdateScript, FormInv, FormTypes
  <1>4. CASE RemoveScript
    <2>1. PICK k \in DOMAIN form.scripts :
            Change([form EXCEPT !.scripts =
                      [j \in 1..(Len(@) - 1) |-> IF j < k THEN @[j] ELSE @[j + 1]]])
      BY <1>4 DEF RemoveScript
    <2>2. form \in Forms /\ form.scripts \in Seq(Texts)
      BY FormFacts DEF FormInv, FormTypes
    <2> DEFINE rest == [j \in 1..(Len(form.scripts) - 1) |->
                          IF j < k THEN form.scripts[j] ELSE form.scripts[j + 1]]
    <2>3. rest \in Seq(Texts)
      BY <2>2, Shorter
    <2>4. Change([form EXCEPT !.scripts = rest])
      BY <2>1
    <2> HIDE DEF rest
    <2> QED
      BY <2>2, <2>3, <2>4, FormFacts, ChangeKeeps
  <1>5. CASE HandleSave
    BY <1>5, SendComplete
  <1>6. CASE \E s \in Sessions : SaveFails(s)
    BY <1>6, FailKeeps
  <1>7. CASE OnCancel \/ \E s \in Sessions : SaveSucceeds(s)
    BY <1>7, SessionsAssumption DEF OnCancel, SaveSucceeds, Close, FormInv, FormTypes,
       SentIsComplete, SentIsHeld
  <1>8. CASE UNCHANGED editorVars
    BY <1>8 DEF editorVars, FormInv, FormTypes, SentIsComplete, SentIsHeld
  <1> QED
    BY <1>1, <1>2, <1>3, <1>4, <1>5, <1>6, <1>7, <1>8 DEF EditorNext

LEMMA FormInvariant == EditorSpec => []FormInv
  <1>1. EditorInit => FormInv
    BY EditorInitInv, EmptyForms, SessionsAssumption
       DEF EditorInit, FormInv, FormTypes, SentIsComplete, SentIsHeld
  <1> QED
    BY <1>1, FormStepInv, PTL DEF EditorSpec

\* The form, what is sent and the sessions keep their types.
THEOREM EditorTypeCorrect == EditorSpec => []EditorTypeOK
  <1>1. FormInv => EditorTypeOK
    BY DEF FormInv, FormTypes, EditorInv, SessionTypes, EditorTypeOK
  <1> QED
    BY <1>1, FormInvariant, PTL

\* Whatever was typed, added, removed and emptied, and whatever the agent had stored: what
\* is sent has a name and a script, and no blank one (CommandSetEditor.tsx 27-42).
THEOREM OnlyCompleteIsSent == EditorSpec => []SentIsComplete
  <1>1. FormInv => SentIsComplete
    BY DEF FormInv
  <1> QED
    BY <1>1, FormInvariant, PTL

\* Whichever answer closes the editor, it is crowded, or changed since, or its own save of
\* what it holds.
LEMMA ClosesSaved ==
    ASSUME FormInv, EditorNext, NEW s \in Sessions, s = current, over'[s] = "answered"
    PROVE  ClosesOnlySaved(s)
  <1>1. over[s] = "no" /\ SessionTypes
    BY DEF FormInv, EditorInv, OpenIsNotOver
  <1>2. CASE OnCancel
    BY <1>1, <1>2 DEF OnCancel, Close, SessionTypes
  <1>3. ASSUME NEW t \in Sessions, SaveSucceeds(t) PROVE ClosesOnlySaved(s)
    <2>1. saves[t] > 0 /\ written' = [written EXCEPT ![t] = @ + 1]
      BY <1>3 DEF SaveSucceeds
    <2>2. CASE t = s
      BY <1>1, <2>1, <2>2 DEF FormInv, SentIsHeld, ClosesOnlySaved, SessionTypes
    <2>3. CASE t # s
      BY <2>1, <2>3 DEF FormInv, EditorInv, OthersCrowd, ClosesOnlySaved
    <2> QED
      BY <2>2, <2>3
  <1>4. CASE UNCHANGED over
    BY <1>1, <1>4
  <1> QED
    BY <1>2, <1>3, <1>4 DEF EditorNext, HandleCreate, HandleEdit, OpenEditor, SaveFails, SetName,
       AddScript, UpdateScript, RemoveScript, Change, HandleSave, SendForm

\* For any number of editors and of saves in flight: an answer closes only an editor whose
\* own save of all that it holds succeeded, unless it was opened over a save of another,
\* or changed between Save and the answer (App.tsx 116-146).
THEOREM NoEditIsLost == EditorSpec => EditsAreKept
  <1>1. FormInv /\ [EditorNext]_editorVars => [\A s \in Sessions : ClosesOnlySaved(s)]_editorVars
    BY ClosesSaved DEF ClosesOnlySaved
  <1> QED
    BY <1>1, FormInvariant, PTL DEF EditorSpec, EditsAreKept

-----------------------------------------------------------------------------
(* The parts together. *)

\* The page does with each part what the part's module says, or leaves it alone: no part
\* needs another to hold its own.
THEOREM PartsOfFront == FrontSpec => ThemeSpec /\ LayoutSpec /\ ConsoleSpec /\ EditorSpec
  <1>1. FrontInit => ThemeInit /\ LayoutInit /\ ConsoleInit /\ EditorInit
    BY DEF FrontInit
  <1>2. [FrontNext]_frontVars =>
            /\ [ThemeNext]_themeVars /\ [LayoutNext]_<<connVars, layoutVars>>
            /\ [ConsoleNext]_consoleVars /\ [EditorNext]_editorVars
    BY DEF FrontNext, ThemeStep, FrameStep, ConsoleStep, EditorStep, frontVars, frameVars
  <1> QED
    BY <1>1, <1>2, PTL DEF FrontSpec, ThemeSpec, LayoutSpec, ConsoleSpec, EditorSpec

\* The types of all parts.
THEOREM FrontTypeCorrect == FrontSpec => []FrontTypeOK
  <1>1. ThemeTypeOK /\ LayoutTypeOK /\ ConsoleTypeOK /\ EditorTypeOK => FrontTypeOK
    BY DEF FrontTypeOK
  <1> QED
    BY <1>1, PartsOfFront, ThemeTypeCorrect, LayoutTypeCorrect, ConsoleTypeCorrect,
       EditorTypeCorrect, PTL

\* What is proved of one part holds whatever the others do meanwhile.
THEOREM FrontIsSafe ==
    FrontSpec => /\ [](/\ StoredThemeIsKept /\ ThemeIsApplied
                       /\ DevicesAreOfServer /\ SpinnersEnd /\ WorkspaceComesBack
                       /\ ExecutionsAreTold
                       /\ SentIsComplete /\ OneSetPerEditor)
                 /\ EditsAreKept
  BY PartsOfFront, ThemeSurvivesReload, ThemeClickApplies, DevicesAreCurrent, SpinnersAreTrue,
     WorkspaceIsReachable, ExecutionsToldOnce, OnlyCompleteIsSent, NoEditIsLost, OneSetEach, PTL
=============================================================================
