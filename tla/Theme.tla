------------------------------- MODULE Theme --------------------------------
(***************************************************************************)
(* The light or dark theme of the page (frontend/src/App.tsx): the state   *)
(* of the component, the class of the document, which every render sets    *)
(* from the state, and the copy in localStorage that a reload starts from. *)
(*                                                                         *)
(* A click opens a view transition, and another may come before it has     *)
(* ended.  The browser runs the callbacks of the transitions in the order  *)
(* they were opened in, and their ends likewise, later; the page may be    *)
(* rendered at any time.                                                   *)
(***************************************************************************)
EXTENDS Naturals, Sequences

CONSTANTS MaxTransitions,  \* bound on the transitions under way
          NoTheme          \* localStorage has no theme

Themes == {"light", "dark"}
ASSUME NoThemeAssumption == NoTheme \notin Themes

VARIABLES theme,       \* the state
          shownTheme,  \* the class of the document
          stored,      \* localStorage "theme"
          opened,      \* the transitions whose callback has not run: what each ends in
          toggled,     \* those that are under way after it
          \* history
          overlapped,  \* transitions overlapped, and no render came since
          unkept       \* the last click's theme was not stored, or not as the last one

themeVars == <<theme, shownTheme, stored, opened, toggled, overlapped, unkept>>

Other(t) == IF t = "dark" THEN "light" ELSE "dark"
AtRest == opened = <<>> /\ toggled = <<>>

ThemeTypeOK ==
    /\ theme \in Themes /\ shownTheme \in Themes /\ stored \in Themes \cup {NoTheme}
    /\ overlapped \in BOOLEAN /\ unkept \in BOOLEAN
    /\ opened \in Seq(Themes) /\ toggled \in Seq(Themes)

\* Without a stored theme the system's preference decides.
StartTheme ==
    /\ theme' \in IF stored = NoTheme THEN Themes ELSE {stored}
    /\ shownTheme' = theme'
    /\ opened' = <<>> /\ toggled' = <<>> /\ overlapped' = FALSE /\ unkept' = FALSE

ThemeInit ==
    /\ stored \in Themes \cup {NoTheme}
    /\ theme \in IF stored = NoTheme THEN Themes ELSE {stored}
    /\ shownTheme = theme
    /\ opened = <<>> /\ toggled = <<>> /\ overlapped = FALSE /\ unkept = FALSE

ReloadTheme == StartTheme /\ UNCHANGED stored

\* localStorage.setItem may throw, which is caught: the old theme stays stored.
Store(t, last) ==
    \/ stored' = t /\ unkept' = ~last
    \/ UNCHANGED stored /\ unkept' = TRUE

\* A click asks for the other theme than the document has.  Whether it opens a
\* transition, each click finds out anew: motion may be reduced meanwhile.
ToggleTheme ==
    /\ Len(opened) + Len(toggled) < MaxTransitions
    /\ opened' = Append(opened, Other(shownTheme))
    /\ overlapped' = (overlapped \/ ~AtRest)
    /\ UNCHANGED <<theme, shownTheme, stored, toggled, unkept>>

\* Without a transition all happens in the click, and the page is rendered.  The end of
\* a transition whose callback has run is yet to set its own theme.
ToggleThemeAtOnce ==
    /\ theme' = Other(shownTheme)
    /\ shownTheme' = theme'
    /\ Store(theme', toggled = <<>>)
    /\ overlapped' = ~AtRest
    /\ UNCHANGED <<opened, toggled>>

\* Mutant of TransitionCallback: stores the theme that the state still has.
CallbackStoresState ==
    /\ opened # <<>>
    /\ shownTheme' = Other(shownTheme)
    /\ Store(theme, TRUE)
    /\ opened' = Tail(opened)
    /\ toggled' = Append(toggled, Head(opened))
    /\ UNCHANGED <<theme, overlapped>>

\* The callback toggles the class, whatever it is by now.
TransitionCallback ==
    /\ opened # <<>>
    /\ shownTheme' = Other(shownTheme)
    /\ Store(Head(opened), TRUE)
    /\ opened' = Tail(opened)
    /\ toggled' = Append(toggled, Head(opened))
    /\ UNCHANGED <<theme, overlapped>>

\* Mutant of TransitionFinished: does not render.
FinishedUnrendered ==
    /\ toggled # <<>>
    /\ theme' = Head(toggled)
    /\ toggled' = Tail(toggled)
    /\ UNCHANGED <<shownTheme, stored, opened, overlapped, unkept>>

\* vt.finished and two frames: setTheme, which renders the page if it changes the state.
TransitionFinished ==
    /\ toggled # <<>>
    /\ theme' = Head(toggled)
    /\ shownTheme' = IF theme' = theme THEN shownTheme ELSE theme'
    /\ toggled' = Tail(toggled)
    /\ UNCHANGED <<stored, opened, overlapped, unkept>>

\* Any other change of the page renders it, in the middle of a transition too.
RenderTheme ==
    /\ shownTheme' = theme
    /\ overlapped' = (overlapped /\ ~AtRest)
    /\ UNCHANGED <<theme, stored, opened, toggled, unkept>>

ThemeNext ==
    \/ ToggleTheme \/ ToggleThemeAtOnce \/ TransitionCallback \/ TransitionFinished
    \/ RenderTheme \/ ReloadTheme

ThemeSpec == ThemeInit /\ [][ThemeNext]_themeVars

-----------------------------------------------------------------------------
(* Safety. *)

\* When no transition is under way the stored theme, if any, is the state's, so that a
\* reload keeps the theme, however the callbacks and ends of clicks in quick succession
\* mixed with each other and with renders (App.tsx 18-26, 409-460).  The code gives no
\* such promise when localStorage refused the last theme (App.tsx 435, 457), or when a
\* click without a transition came between the callback and the end of one, whose theme
\* the end then puts back: a reload undoes that.
StoredThemeIsKept == AtRest /\ ~unkept => stored \in {NoTheme, theme}

\* As long as no two transitions overlap, a click leads to the other theme, though a
\* render takes the new class away before the transition has ended, and then the
\* document shows it (App.tsx 328-333, 431, 448).  When they overlap, the class may be
\* toggled by the callback of a second after the state was set by the first, and
\* stay wrong until the next render.
ThemeIsApplied ==
    ~overlapped =>
        /\ AtRest => shownTheme = theme
        /\ \A k \in DOMAIN opened : opened[k] # theme
        /\ \A k \in DOMAIN toggled : toggled[k] # theme
=============================================================================
