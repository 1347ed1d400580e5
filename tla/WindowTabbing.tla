---------------------------- MODULE WindowTabbing ----------------------------
(***************************************************************************)
(* Automatic window tabbing (NSWindow.h lines 253-270, 684-728).           *)
(*                                                                         *)
(* Shown windows are arranged in tab groups: tabGroup.windows, in tab      *)
(* order, with one selected tab.  A window being shown may be tabbed into *)
(* the group of a shown window with the same tabbingIdentifier: with      *)
(* NSWindowTabbingModePreferred it prefers to, with ...Disallowed it does  *)
(* not, and with ...Automatic the system looks at userTabbingPreference    *)
(* (Manual, Always, InFullScreen), and only if the application has not    *)
(* opted out through allowsAutomaticWindowTabbing.  addTabbedWindow:       *)
(* ordered:, moveTabToNewWindow:, mergeAllWindows: and selectNext/         *)
(* PreviousTab: rearrange the groups; tabbedWindows is nil without a tab  *)
(* bar.  A tab group is a sequence of windows; which tab is selected is    *)
(* the set `selected`, one window per group.                               *)
(***************************************************************************)
EXTENDS Naturals, FiniteSets, Sequences, SequencesExt

CONSTANTS
  Windows,       \* the application's windows
  Identifiers    \* tabbingIdentifier values

TabbingModes == {"Automatic", "Preferred", "Disallowed"}   \* lines 266-270
UserPrefs    == {"Manual", "Always", "InFullScreen"}        \* lines 253-257
Orderings    == {"Above", "Below"}                          \* NSWindowOrderingMode

VARIABLES
  allowsAutomatic,  \* NSWindow.allowsAutomaticWindowTabbing (class property)
  userPref,         \* NSWindow.userTabbingPreference
  mode,             \* mode[w]: w.tabbingMode
  ident,            \* ident[w]: w.tabbingIdentifier
  visible,          \* windows w with w.isVisible
  fullScreen,       \* shown windows in full screen
  groups,           \* the tab groups: each the windows of a tabGroup in order
  selected          \* the selected window of every tab group

vars == <<allowsAutomatic, userPref, mode, ident, visible, fullScreen, groups, selected>>

\* The tab group holding window w.
GroupOf(w) == CHOOSE g \in groups : Contains(g, w)

\* The groups once w is taken out of its own; a group left empty goes.
Without(gs, w) == {Remove(g, w) : g \in gs} \ {<<>>}

\* The windows that may become selected when w leaves its group.
Successors(w) == IF Len(GroupOf(w)) = 1 THEN {w} ELSE ToSet(GroupOf(w)) \ {w}

\* The selection once w leaves its group and v is selected in its place.
Reselect(sel, w, v) == IF w \in sel THEN (sel \ {w}) \cup ({v} \ {w}) ELSE sel

\* Window w, being shown, may be tabbed into the group of shown window v.
WantsTab(w, v) ==
  /\ ident[w] = ident[v]
  /\ \/ mode[w] = "Preferred"
     \/ /\ mode[w] = "Automatic" /\ allowsAutomatic
        /\ \/ userPref = "Always"
           \/ userPref = "InFullScreen" /\ v \in fullScreen

\* tabbedWindows: the group's windows, or nil (<<>>) without a tab bar; a
\* group of one tab shows no tab bar.
TabbedWindows(w) == IF Len(GroupOf(w)) > 1 THEN GroupOf(w) ELSE <<>>

Init ==
  /\ allowsAutomatic = TRUE
  /\ userPref   \in UserPrefs
  /\ mode       \in [Windows -> TabbingModes]
  /\ ident      \in [Windows -> Identifiers]
  /\ visible    = {}
  /\ fullScreen = {}
  /\ groups     = {}
  /\ selected   = {}

(***************************************************************************)
(* Plausible defects, used only to confirm that the properties detect them. *)
(***************************************************************************)

\* The window gets a group of its own but is not taken out of the old one.
moveTabToNewWindow_keepsOld(w) ==
  /\ w \in visible /\ Len(GroupOf(w)) > 1
  /\ groups'   = groups \cup {<<w>>}
  /\ selected' = selected \cup {w}
  /\ UNCHANGED <<allowsAutomatic, userPref, mode, ident, visible, fullScreen>>

\* Closing the selected tab selects no other tab of its group.
close_noReselect(w) ==
  /\ w \in visible
  /\ groups'     = Without(groups, w)
  /\ selected'   = selected \ {w}
  /\ visible'    = visible \ {w}
  /\ fullScreen' = fullScreen \ {w}
  /\ UNCHANGED <<allowsAutomatic, userPref, mode, ident>>

\* A closed window keeps its full-screen state.
close_keepsFullScreen(w) ==
  /\ w \in visible
  /\ \E v \in Successors(w) :
       /\ groups'   = Without(groups, w)
       /\ selected' = Reselect(selected, w, v)
  /\ visible' = visible \ {w}
  /\ UNCHANGED <<allowsAutomatic, userPref, mode, ident, fullScreen>>

(***************************************************************************)
(* Operations.                                                             *)
(***************************************************************************)

\* tabbingMode is set "before a window is shown" (line 694).
setTabbingMode(w, m) ==
  /\ w \notin visible
  /\ mode' = [mode EXCEPT ![w] = m]
  /\ UNCHANGED <<allowsAutomatic, userPref, ident, visible, fullScreen, groups, selected>>

\* The application opts in or out of automatic tabbing (line 688).
setAllowsAutomaticWindowTabbing(b) ==
  /\ allowsAutomatic' = b
  /\ UNCHANGED <<userPref, mode, ident, visible, fullScreen, groups, selected>>

\* The user changes the preference in System Settings (line 692).
changeUserPreference(p) ==
  /\ userPref' = p
  /\ UNCHANGED <<allowsAutomatic, mode, ident, visible, fullScreen, groups, selected>>

\* A shown window enters or leaves full screen.
toggleFullScreen(w) ==
  /\ w \in visible
  /\ fullScreen' = IF w \in fullScreen THEN fullScreen \ {w} ELSE fullScreen \cup {w}
  /\ UNCHANGED <<allowsAutomatic, userPref, mode, ident, visible, groups, selected>>

\* A hidden window is shown: tabbed into the group of a shown window it
\* wants to tab with (as its selected tab), or, when that is not
\* "appropriate", in a group of its own.
show(w) ==
  /\ w \notin visible
  /\ visible' = visible \cup {w}
  /\ \/ \E v \in visible :
          /\ WantsTab(w, v)
          /\ groups'   = (groups \ {GroupOf(v)}) \cup {Append(GroupOf(v), w)}
          /\ selected' = (selected \ ToSet(GroupOf(v))) \cup {w}
     \/ /\ groups'   = groups \cup {<<w>>}
        /\ selected' = selected \cup {w}
  /\ UNCHANGED <<allowsAutomatic, userPref, mode, ident, fullScreen>>

\* The window is closed (or ordered out): it leaves its group, and another
\* of its tabs is selected if it was the selected one.
close(w) ==
  /\ w \in visible
  /\ \E v \in Successors(w) :
       /\ groups'   = Without(groups, w)
       /\ selected' = Reselect(selected, w, v)
  /\ visible'    = visible \ {w}
  /\ fullScreen' = fullScreen \ {w}
  /\ UNCHANGED <<allowsAutomatic, userPref, mode, ident>>

\* moveTabToNewWindow: the tab becomes a window, and a group, of its own.
moveTabToNewWindow(w) ==
  /\ w \in visible /\ Len(GroupOf(w)) > 1
  /\ \E v \in Successors(w) :
       /\ groups'   = Without(groups, w) \cup {<<w>>}
       /\ selected' = Reselect(selected, w, v) \cup {w}
  /\ UNCHANGED <<allowsAutomatic, userPref, mode, ident, visible, fullScreen>>

\* addTabbedWindow:ordered: (tabGroup addWindow:): window v, taken out of
\* any group it is in, becomes the tab after (Above) or before (Below) w.
addTabbedWindow(w, v, o) ==
  /\ w \in visible /\ v # w /\ ~Contains(GroupOf(w), v)
  /\ LET g   == GroupOf(w)
         i   == CHOOSE k \in 1..Len(g) : g[k] = w
         pos == IF o = "Above" THEN i + 1 ELSE i
     IN /\ \E s \in IF v \in visible THEN Successors(v) ELSE {v} :
             /\ groups'   = (Without(groups, v) \ {g}) \cup {InsertAt(g, pos, v)}
             /\ selected' = Reselect(selected, v, s)
  /\ visible' = visible \cup {v}
  /\ UNCHANGED <<allowsAutomatic, userPref, mode, ident, fullScreen>>

\* mergeAllWindows: every tab joins the receiver's group, after its tabs;
\* the receiver's selected tab stays selected.
mergeAllWindows(w) ==
  /\ w \in visible /\ Cardinality(groups) > 1
  /\ groups'   = {GroupOf(w) \o FlattenSeq(SetToSeq(groups \ {GroupOf(w)}))}
  /\ selected' = selected \cap ToSet(GroupOf(w))
  /\ UNCHANGED <<allowsAutomatic, userPref, mode, ident, visible, fullScreen>>

\* selectNextTab: / selectPreviousTab: sent to the selected tab w select
\* the tab after / before it, wrapping around at the ends.
selectTab(w, step) ==
  /\ w \in selected /\ Len(GroupOf(w)) > 1
  /\ LET g == GroupOf(w)
         i == CHOOSE k \in 1..Len(g) : g[k] = w
     IN selected' = (selected \ {w}) \cup {g[((i - 1 + step + Len(g)) % Len(g)) + 1]}
  /\ UNCHANGED <<allowsAutomatic, userPref, mode, ident, visible, fullScreen, groups>>

Next ==
  \/ \E w \in Windows :
       \/ show(w) \/ close(w) \/ toggleFullScreen(w)
       \/ moveTabToNewWindow(w) \/ mergeAllWindows(w)
       \/ \E step \in {1, -1} : selectTab(w, step)
       \/ \E m \in TabbingModes : setTabbingMode(w, m)
       \/ \E v \in Windows, o \in Orderings : addTabbedWindow(w, v, o)
  \/ \E b \in BOOLEAN : setAllowsAutomaticWindowTabbing(b)
  \/ \E p \in UserPrefs : changeUserPreference(p)

Spec == Init /\ [][Next]_vars

(***************************************************************************)
(* Properties.                                                             *)
(***************************************************************************)

TypeOK ==
  /\ allowsAutomatic \in BOOLEAN
  /\ userPref   \in UserPrefs
  /\ mode       \in [Windows -> TabbingModes]
  /\ ident      \in [Windows -> Identifiers]
  /\ visible    \subseteq Windows
  /\ fullScreen \subseteq visible
  /\ groups     \subseteq BoundedSeq(Windows, Cardinality(Windows))
  /\ selected   \subseteq Windows

\* The tab groups partition the shown windows: through any sequence of
\* showing, closing, adding, moving and merging tabs, every shown window is
\* a tab of exactly one group, once, and a hidden window of none; so every
\* tab of a group reports the same tabbedWindows.
TabGroupsPartition ==
  /\ \A g \in groups : IsInjective(g)
  /\ \A g, h \in groups : g # h => ToSet(g) \cap ToSet(h) = {}
  /\ UNION {ToSet(g) : g \in groups} = visible
  /\ \A w, v \in visible : Contains(TabbedWindows(w), v) => TabbedWindows(v) = TabbedWindows(w)

\* Every tab group has exactly one selected tab, also after its selected
\* tab is closed, moved out or added to another group.
OneSelectedPerGroup ==
  /\ selected \subseteq visible
  /\ \A g \in groups : Cardinality(ToSet(g) \cap selected) = 1
=============================================================================
