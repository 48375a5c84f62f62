------------------------------- MODULE Pickers -------------------------------
(***************************************************************************)
(* The two screens that pick something the daemon owns: the sessions       *)
(* browser (app/browser.rs) and the theme picker (app/theme.rs), with the  *)
(* client task that performs their effects one after the other             *)
(* (tui/driver.rs, client_task.rs) and the replies it reports.             *)
(***************************************************************************)
EXTENDS Naturals, Sequences, FiniteSets, Functions, Selections

CONSTANTS
  Sessions,
  Title,       \* per session: the characters its title and mode are spelled with
  Here,        \* the sessions of this front end's workspace root
  Themes,      \* Theme::ALL, in the order of the picker's rows
  NoTheme,
  MaxRequests, \* bound: the effects a user asks for
  MaxFilter    \* bound: the characters of a filter

PickersAssumption ==
  /\ IsFiniteSet(Sessions) /\ Here \subseteq Sessions /\ {MaxRequests, MaxFilter} \subseteq Nat
  /\ Themes \in Seq(Range(Themes)) /\ Len(Themes) > 0
  /\ \A i \in DOMAIN Themes : Themes[i] # NoTheme

VARIABLES
  durable,            \* the daemon: its sessions, the newest first,
  stored,             \* and the theme its settings hold
  queue, reports,     \* the effects and the actions of the client task
  screen, sessions, loaded, tab, filter, rows, cursor, theme, preview,
  asked,              \* the effects so far
  unknown             \* a reply that named the stored theme was lost

browser == <<sessions, loaded, tab, filter, rows, cursor>>
daemon == <<durable, stored>>
vars == <<daemon, queue, reports, screen, browser, theme, preview, asked, unknown>>

\* BrowserTab::ALL; the core carries no fact for the last three.
Tabs == <<"current", "all", "exec", "favorites", "archived">>
Stub(t) == t \in {"exec", "favorites", "archived"}
Characters == UNION {{Title[s][i] : i \in DOMAIN Title[s]} : s \in Sessions}

Init ==
  /\ durable \in Bijection(1 .. Cardinality(Sessions), Sessions) /\ stored \in {Themes[i] : i \in DOMAIN Themes}
  /\ queue = <<[kind |-> "settings", what |-> NoTheme]>> /\ reports = <<>>
  /\ screen = "chat" /\ sessions = <<>> /\ loaded = FALSE
  /\ tab = "all" /\ filter = <<>> /\ rows = <<>> /\ cursor = 1
  /\ theme = Themes[1] /\ preview = NoTheme
  /\ asked = 0 /\ unknown = FALSE

-----------------------------------------------------------------------------
\* fuzzy_match: the characters in order, with anything between them.
FuzzyMatch(needle, candidate) ==
  \E at \in [DOMAIN needle -> DOMAIN candidate] :
    /\ \A i \in DOMAIN needle : candidate[at[i]] = needle[i]
    /\ \A i, j \in DOMAIN needle : i < j => at[i] < at[j]
Matches(s, t, f) == (t = "current" => s \in Here) /\ FuzzyMatch(f, Title[s])
Selected(list, t, f) == IF Stub(t) THEN <<>> ELSE Within(list, {s \in Sessions : Matches(s, t, f)})
Clamp(n, result) == IF n <= Len(result) THEN n ELSE IF result = <<>> THEN 1 ELSE Len(result)

\* Plausible bug: the rows are selected again, under the cursor they had.
RefreshFault(list, t, f, at) == rows' = Selected(list, t, f) /\ cursor' = at
\* SessionsBrowserState::refresh.
Refresh(list, t, f, at) ==
  /\ rows' = Selected(list, t, f)
  /\ cursor' = Clamp(at, Selected(list, t, f))

Ask(kind, what) ==
  /\ asked < MaxRequests /\ asked' = asked + 1
  /\ queue' = Append(queue, [kind |-> kind, what |-> what])
AskNothing == UNCHANGED <<queue, asked>>

RequestBrowser ==
  /\ screen = "chat" /\ screen' = "sessions"
  /\ tab' = "all" /\ filter' = <<>> /\ Refresh(sessions, "all", <<>>, 1)
  /\ Ask("list", NoTheme)
  /\ UNCHANGED <<daemon, reports, sessions, loaded, theme, preview, unknown>>

CloseBrowser ==
  /\ screen = "sessions" /\ screen' = "chat" /\ rows' = <<>> /\ cursor' = 1
  /\ AskNothing
  /\ UNCHANGED <<daemon, reports, sessions, loaded, tab, filter, theme, preview, unknown>>

Neighbour(t, step) ==
  LET i == CHOOSE i \in DOMAIN Tabs : Tabs[i] = t IN Tabs[((i - 1 + step) % Len(Tabs)) + 1]
\* The next tab or the previous one, wrapping.
MoveTab(step) ==
  /\ screen = "sessions" /\ tab' = Neighbour(tab, step)
  /\ Refresh(sessions, tab', filter, cursor)
  /\ AskNothing
  /\ UNCHANGED <<daemon, reports, screen, sessions, loaded, filter, theme, preview, unknown>>

\* Plausible bug: a filter that shrinks leaves the rows of the longer one.
BackspaceRowsFault == UNCHANGED <<rows, cursor>>
BackspaceRows == Refresh(sessions, tab, filter', cursor)

TypeFilter(c) ==
  /\ screen = "sessions" /\ Len(filter) < MaxFilter /\ filter' = Append(filter, c)
  /\ Refresh(sessions, tab, filter', cursor)
  /\ AskNothing
  /\ UNCHANGED <<daemon, reports, screen, sessions, loaded, tab, theme, preview, unknown>>

BackspaceFilter ==
  /\ screen = "sessions" /\ filter # <<>> /\ filter' = SubSeq(filter, 1, Len(filter) - 1)
  /\ BackspaceRows
  /\ AskNothing
  /\ UNCHANGED <<daemon, reports, screen, sessions, loaded, tab, theme, preview, unknown>>

MoveCursor(down) ==
  /\ screen = "sessions"
  /\ cursor' = IF down THEN Clamp(cursor + 1, rows) ELSE IF cursor > 1 THEN cursor - 1 ELSE 1
  /\ AskNothing
  /\ UNCHANGED <<daemon, reports, screen, sessions, loaded, tab, filter, rows, theme, preview, unknown>>

\* Enter: without a row under the cursor only a notice.
SelectSession ==
  /\ screen = "sessions" /\ cursor \in DOMAIN rows
  /\ Ask("open", rows[cursor])
  /\ screen' = "chat" /\ rows' = <<>> /\ cursor' = 1
  /\ UNCHANGED <<daemon, reports, sessions, loaded, tab, filter, theme, preview, unknown>>

-----------------------------------------------------------------------------
EffectiveTheme == IF preview = NoTheme THEN theme ELSE preview
ThemeRow == CHOOSE i \in DOMAIN Themes : Themes[i] = EffectiveTheme

RequestPicker ==
  /\ screen = "chat" /\ screen' = "theme" /\ preview' = NoTheme
  /\ AskNothing
  /\ UNCHANGED <<daemon, reports, browser, theme, unknown>>

PreviewTheme(down) ==
  /\ screen = "theme"
  /\ preview' = Themes[IF down THEN Clamp(ThemeRow + 1, Themes)
                       ELSE IF ThemeRow > 1 THEN ThemeRow - 1 ELSE 1]
  /\ AskNothing
  /\ UNCHANGED <<daemon, reports, screen, browser, theme, unknown>>

\* The picker's Enter, or a /theme that names its value.
SelectTheme(t) ==
  /\ screen = "theme" => t = EffectiveTheme
  /\ screen # "sessions" /\ screen' = "chat"
  /\ preview' = t /\ Ask("theme", t)
  /\ UNCHANGED <<daemon, reports, browser, theme, unknown>>

ClearPreview ==
  /\ screen = "theme" /\ screen' = "chat" /\ preview' = NoTheme
  /\ AskNothing
  /\ UNCHANGED <<daemon, reports, browser, theme, unknown>>

-----------------------------------------------------------------------------
Answer(kind, what) == reports' = Append(reports, [kind |-> kind, what |-> what])

\* What the daemon does for an effect; a request can fail at the daemon or lose
\* its reply.
ListSessions ==
  /\ Answer("listed", durable) \/ Answer("failed", NoTheme)
  /\ UNCHANGED <<stored, unknown>>
TuiSettings ==
  /\ \/ Answer("settings", stored) /\ unknown' = FALSE
     \/ Answer("settings_failed", NoTheme) /\ unknown' = TRUE
  /\ UNCHANGED stored
SaveTuiTheme(chosen) == stored' = chosen
SetTuiTheme(chosen) ==
  \/ SaveTuiTheme(chosen) /\ Answer("settings", chosen) /\ unknown' = FALSE
  \/ Answer("settings_failed", NoTheme) /\ UNCHANGED <<stored, unknown>>
  \/ SaveTuiTheme(chosen) /\ Answer("settings_failed", NoTheme) /\ unknown' = TRUE

\* The client task performs the first effect.
Perform ==
  /\ queue # <<>> /\ queue' = Tail(queue)
  /\ \/ Head(queue).kind = "list" /\ ListSessions
     \/ Head(queue).kind = "open" /\ UNCHANGED <<stored, reports, unknown>>
     \/ Head(queue).kind = "settings" /\ TuiSettings
     \/ Head(queue).kind = "theme" /\ SetTuiTheme(Head(queue).what)
  /\ UNCHANGED <<durable, screen, browser, theme, preview, asked>>

\* A session is updated, here or in another window.
Touch(s) ==
  /\ durable[1] # s
  /\ durable' = <<s>> \o Within(durable, Sessions \ {s})
  /\ UNCHANGED <<stored, queue, reports, screen, browser, theme, preview, asked, unknown>>

Report(kind) == reports # <<>> /\ Head(reports).kind = kind /\ reports' = Tail(reports)

SessionsListed ==
  /\ Report("listed") /\ sessions' = Head(reports).what /\ loaded' = TRUE
  /\ Refresh(sessions', tab, filter, cursor)
  /\ UNCHANGED <<daemon, queue, screen, tab, filter, theme, preview, asked, unknown>>

SessionsListFailed ==
  /\ Report("failed")
  /\ UNCHANGED <<daemon, queue, screen, browser, theme, preview, asked, unknown>>

SettingsReceived ==
  /\ Report("settings") /\ theme' = Head(reports).what /\ preview' = NoTheme
  /\ UNCHANGED <<daemon, queue, screen, browser, asked, unknown>>

\* Plausible bug: a rejected selection leaves the candidate on the screen.
DropPreviewFault == UNCHANGED preview
DropPreview == preview' = NoTheme
SettingsFailed ==
  /\ Report("settings_failed") /\ DropPreview
  /\ UNCHANGED <<daemon, queue, screen, browser, theme, asked, unknown>>

Next ==
  \/ RequestBrowser \/ CloseBrowser \/ SelectSession \/ BackspaceFilter
  \/ \E step \in {1, Len(Tabs) - 1} : MoveTab(step)
  \/ \E c \in Characters : TypeFilter(c)
  \/ \E down \in BOOLEAN : MoveCursor(down) \/ PreviewTheme(down)
  \/ RequestPicker \/ ClearPreview \/ \E i \in DOMAIN Themes : SelectTheme(Themes[i])
  \/ Perform \/ \E s \in Sessions : Touch(s)
  \/ SessionsListed \/ SessionsListFailed \/ SettingsReceived \/ SettingsFailed
Spec == Init /\ [][Next]_vars
-----------------------------------------------------------------------------
TypeOK ==
  /\ screen \in {"chat", "sessions", "theme"} /\ cursor \in Nat \ {0}
  /\ preview # NoTheme => preview \in {Themes[i] : i \in DOMAIN Themes}

\* Whatever lists arrive while the user types, deletes and turns the tabs, an
\* open browser shows the rows its tab and filter select from the newest list in
\* the order of the daemon, and Enter has a row whenever there is one to open.
BrowserShowsTheList ==
  screen = "sessions" =>
    /\ rows = Within(sessions, {s \in Sessions : ~Stub(tab) /\ Matches(s, tab, filter)})
    /\ rows # <<>> => cursor \in DOMAIN rows

\* Once every selection is answered the window paints the theme the daemon
\* stores, unless the reply that would have named it was lost: no order of previews,
\* selections, rejections and reopened pickers leaves a candidate behind.
PaintedThemeIsStored ==
  (queue = <<>> /\ reports = <<>> /\ screen # "theme") =>
    EffectiveTheme = theme /\ (theme = stored \/ unknown)
==============================================================================
