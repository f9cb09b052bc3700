------------------------------ MODULE FrontEnd ------------------------------
(***************************************************************************)
(* The parts of the page that share no state, together: theme, layout with *)
(* the connections, console, editor.  A click on the button of the mode    *)
(* reaches several parts; each has its own step for it here, so that a     *)
(* behaviour of the page is one of these with the steps taken in a row.    *)
(***************************************************************************)
EXTENDS Theme, Layout, ConsoleLog, Editor

frameVars == <<connVars, layoutVars>>
frontVars == <<themeVars, frameVars, consoleVars, editorVars>>

FrontInit == ThemeInit /\ LayoutInit /\ ConsoleInit /\ EditorInit

ThemeStep == ThemeNext /\ UNCHANGED <<frameVars, consoleVars, editorVars>>
FrameStep == LayoutNext /\ UNCHANGED <<themeVars, consoleVars, editorVars>>
ConsoleStep == ConsoleNext /\ UNCHANGED <<themeVars, frameVars, editorVars>>
EditorStep == EditorNext /\ UNCHANGED <<themeVars, frameVars, consoleVars>>

FrontNext == ThemeStep \/ FrameStep \/ ConsoleStep \/ EditorStep

FrontSpec == FrontInit /\ [][FrontNext]_frontVars

-----------------------------------------------------------------------------
\* The types of all parts (App.tsx and the hooks and components below it).
FrontTypeOK == ThemeTypeOK /\ LayoutTypeOK /\ ConsoleTypeOK /\ EditorTypeOK
=============================================================================
