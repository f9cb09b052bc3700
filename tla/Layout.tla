------------------------------- MODULE Layout -------------------------------
(***************************************************************************)
(* What the page has room for (frontend/src/App.tsx, Sidebar, Topbar and   *)
(* hooks/useMediaQuery.ts).  On a wide page the devices of the cloud are   *)
(* in the sidebar, which has the button that toggles the mode; on a narrow *)
(* one they are in a strip beside the workspace, which takes its place     *)
(* when expanded, and the button is in the top bar.  The stylesheet        *)
(* follows the width at once, the state of the component with the event    *)
(* of the media query.                                                     *)
(***************************************************************************)
EXTENDS Connections

VARIABLES wide,            \* the page is at least 1280 px wide
          isDesktopXL,     \* what the hook has last heard of that
          inlineExpanded,  \* mobileInlineExpanded
          widened          \* history: the page became wide over an expanded strip

layoutVars == <<wide, isDesktopXL, inlineExpanded, widened>>

LayoutTypeOK ==
    /\ ConnTypeOK
    /\ wide \in BOOLEAN /\ isDesktopXL \in BOOLEAN
    /\ inlineExpanded \in BOOLEAN /\ widened \in BOOLEAN

LayoutInit ==
    /\ ConnInit
    /\ wide \in BOOLEAN /\ isDesktopXL = wide
    /\ inlineExpanded = FALSE /\ widened = FALSE

IsOpen == isDesktopXL /\ mode = "cloud"
StripShown == ~isDesktopXL /\ mode = "cloud"
WorkspaceShown == ~inlineExpanded
DevicesShown == IsOpen \/ (StripShown /\ inlineExpanded)

Resize ==
    /\ wide' = ~wide
    /\ UNCHANGED <<connVars, isDesktopXL, inlineExpanded, widened>>

\* The change event of the media query.
OnChange ==
    /\ isDesktopXL # wide
    /\ isDesktopXL' = wide
    /\ widened' = (widened \/ (wide /\ inlineExpanded))
    /\ Render
    /\ UNCHANGED <<wide, inlineExpanded, mode, cloudVars, localVars>>

\* The sidebar's button closes the strip only if the page is narrow.
ToggleInSidebar ==
    /\ wide
    /\ ToggleMode
    /\ inlineExpanded' = (inlineExpanded /\ isDesktopXL)
    /\ widened' = (widened /\ inlineExpanded')
    /\ UNCHANGED <<wide, isDesktopXL>>

\* Mutant of ToggleInTopbar: leaves the strip expanded.
ToggleKeepsStrip ==
    /\ ~wide
    /\ ToggleMode
    /\ UNCHANGED <<wide, isDesktopXL, inlineExpanded, widened>>

ToggleInTopbar ==
    /\ ~wide
    /\ ToggleMode
    /\ inlineExpanded' = FALSE /\ widened' = FALSE
    /\ UNCHANGED <<wide, isDesktopXL>>

ToggleStrip ==
    /\ StripShown /\ ~dialog.open
    /\ inlineExpanded' = ~inlineExpanded /\ widened' = FALSE
    /\ Render
    /\ UNCHANGED <<wide, isDesktopXL, mode, cloudVars, localVars>>

ConfigureCloud == DevicesShown /\ OpenConfig /\ UNCHANGED layoutVars

ReloadLayout ==
    /\ ReloadPage
    /\ isDesktopXL' = wide
    /\ inlineExpanded' = FALSE /\ widened' = FALSE
    /\ UNCHANGED wide

LayoutNext ==
    \/ ConnStep /\ UNCHANGED layoutVars
    \/ Resize \/ OnChange \/ ToggleInSidebar \/ ToggleInTopbar \/ ToggleStrip
    \/ ConfigureCloud \/ ReloadLayout

LayoutSpec == LayoutInit /\ [][LayoutNext]_<<connVars, layoutVars>>

-----------------------------------------------------------------------------
(* Safety. *)

\* The workspace is hidden only while the strip that can be closed again is there;
\* unless the strip was expanded when the page became wide: then the workspace stays
\* hidden, and the sidebar's button, the only one of a wide page, does not bring it
\* back (App.tsx 353-376, 383-408, 469-521).
WorkspaceComesBack == WorkspaceShown \/ StripShown \/ widened
=============================================================================
