---------------------------- MODULE AlertWindows ----------------------------
(***************************************************************************)
(* The grouping of alerts into time windows (src/backend/src/services/     *)
(* alertWindowing.service.ts).  One asset and alert type is enough: the    *)
(* service keeps nothing across them.  An alert has a priority and falls   *)
(* into a bucket of time; a window is a row of alert_windows.  Every call  *)
(* reads its row and writes it later, without a transaction, so the steps  *)
(* of different requests interleave.                                       *)
(***************************************************************************)
EXTENDS Naturals, Sequences, FiniteSets, Functions, SequencesExt

CONSTANTS
    Alert,        \* alerts assigned to windows, each in a request of its own
    Priority,
    Bucket,       \* the buckets of time the alerts fall into
    Closer,       \* requests that close windows
    MaxSummaries  \* bound on the summaries written

ASSUME WindowAssumption ==
    IsFiniteSet(Alert) /\ IsFiniteSet(Priority) /\ MaxSummaries \in Nat

VARIABLES
    windows,     \* the rows of alert_windows
    assigning,   \* Alert -> what its assignToWindow request has read
    closing,     \* Closer -> the windows left to close and the row it read
    expired,     \* the buckets that are over
    summaries,   \* the rows of alert_window_summaries
    placed       \* Alert -> the window it was put into, 0 for none (history)

windowVars == <<windows, assigning, closing, expired, summaries, placed>>

NoCounts == [p \in Priority |-> 0]
Totalled(severity) == SumFunction(severity)
Idle == [step |-> "idle"]

WindowInit ==
    /\ windows = <<>> /\ summaries = <<>> /\ expired = {}
    /\ assigning = [a \in Alert |-> Idle]
    /\ closing = [c \in Closer |-> [step |-> "idle", todo |-> <<>>]]
    /\ placed = [a \in Alert |-> 0]

\* assignToWindow reads some open window of the alert's bucket, or none.
findWindow(a, b, p) ==
    LET open == {w \in DOMAIN windows :
                    windows[w].bucket = b /\ windows[w].status = "open"}
    IN  /\ assigning[a] = Idle /\ placed[a] = 0
        /\ \/ \E w \in open : assigning' = [assigning EXCEPT ![a] =
                [step |-> "update", window |-> w, row |-> windows[w],
                 priority |-> p]]
           \/ open = {} /\ assigning' = [assigning EXCEPT ![a] =
                [step |-> "insert", bucket |-> b, priority |-> p]]
        /\ UNCHANGED <<windows, closing, expired, summaries, placed>>

\* Mutant: the whole row that was read is written back.
countAlert_WholeRow(a) ==
    LET r == assigning[a] IN
    /\ r.step = "update"
    /\ windows' = [windows EXCEPT ![r.window] =
            [r.row EXCEPT !.count = @ + 1, !.severity[r.priority] = @ + 1]]
    /\ placed' = [placed EXCEPT ![a] = r.window]
    /\ assigning' = [assigning EXCEPT ![a] = Idle]
    /\ UNCHANGED <<closing, expired, summaries>>

\* What it read, counted once more, overwrites the row's two counts: the
\* window may have been counted up or closed since.
countAlert(a) ==
    LET r == assigning[a] IN
    /\ r.step = "update"
    /\ windows' = [windows EXCEPT
            ![r.window].count = r.row.count + 1,
            ![r.window].severity =
                [r.row.severity EXCEPT ![r.priority] = @ + 1]]
    /\ placed' = [placed EXCEPT ![a] = r.window]
    /\ assigning' = [assigning EXCEPT ![a] = Idle]
    /\ UNCHANGED <<closing, expired, summaries>>

\* Or it inserts a window that holds the alert.
openWindow(a) ==
    LET r == assigning[a] IN
    /\ r.step = "insert"
    /\ windows' = Append(windows,
            [bucket |-> r.bucket, count |-> 1, status |-> "open",
             severity |-> [NoCounts EXCEPT ![r.priority] = 1]])
    /\ placed' = [placed EXCEPT ![a] = Len(windows')]
    /\ assigning' = [assigning EXCEPT ![a] = Idle]
    /\ UNCHANGED <<closing, expired, summaries>>

\* A route closes one window, whatever its status, or autoCloseExpiredWindows
\* lists the open windows that are over and closes them in turn.
startClosing(c) ==
    /\ closing[c].step = "idle"
    /\ Len(summaries) < MaxSummaries
    /\ LET over == {w \in DOMAIN windows : windows[w].status = "open"
                                            /\ windows[w].bucket \in expired}
       IN  \E todo \in {<<w>> : w \in DOMAIN windows} \cup SetToSeqs(over) :
              closing' = [closing EXCEPT ![c] = [step |-> "close", todo |-> todo]]
    /\ UNCHANGED <<windows, assigning, expired, summaries, placed>>

closeWindow(c) ==
    LET r == closing[c] IN
    /\ r.step = "close"
    /\ \/ /\ r.todo = <<>> /\ windows' = windows
          /\ closing' = [closing EXCEPT ![c].step = "idle"]
       \/ /\ r.todo # <<>>
          /\ windows' = [windows EXCEPT ![Head(r.todo)].status = "closed"]
          /\ closing' = [closing EXCEPT ![c].step = "read"]
    /\ UNCHANGED <<assigning, expired, summaries, placed>>

\* generateSummary reads the window again and inserts what it found.
readWindow(c) ==
    /\ closing[c].step = "read"
    /\ closing' = [closing EXCEPT ![c] =
            [step |-> "insert", todo |-> @.todo, row |-> windows[Head(@.todo)]]]
    /\ UNCHANGED <<windows, assigning, expired, summaries, placed>>

insertSummary(c) ==
    LET r == closing[c] IN
    /\ r.step = "insert"
    /\ summaries' = Append(summaries,
            [window |-> Head(r.todo), total |-> r.row.count,
             severity |-> r.row.severity])
    /\ closing' = [closing EXCEPT ![c] =
            [step |-> "close", todo |-> Tail(r.todo)]]
    /\ UNCHANGED <<windows, assigning, expired, placed>>

\* Time passes a bucket's end.
elapse(b) ==
    /\ b \notin expired /\ expired' = expired \cup {b}
    /\ UNCHANGED <<windows, assigning, closing, summaries, placed>>

WindowNext ==
    \/ \E a \in Alert : \/ \E b \in Bucket, p \in Priority : findWindow(a, b, p)
                        \/ countAlert(a) \/ openWindow(a)
    \/ \E c \in Closer :
          startClosing(c) \/ closeWindow(c) \/ readWindow(c) \/ insertSummary(c)
    \/ \E b \in Bucket : elapse(b)

\* The windows by themselves.
WindowSpec == WindowInit /\ [][WindowNext]_windowVars

-----------------------------------------------------------------------------
\* A window's count is the sum of its breakdown by priority, and a summary's
\* total the sum of its own, however requests overwrite each other's counts:
\* both come from one read and go into one write.
CountsAgree ==
    /\ \A w \in DOMAIN windows : windows[w].count = Totalled(windows[w].severity)
    /\ \A s \in DOMAIN summaries :
          summaries[s].total = Totalled(summaries[s].severity)

\* Lost updates lose alerts and never invent one: a window counts at least
\* one and at most the alerts that were put into it.
NothingInvented ==
    \A w \in DOMAIN windows :
        windows[w].count \in 1 .. Cardinality({a \in Alert : placed[a] = w})

\* A window with a summary stays closed, though requests that read it open
\* still write to it.
SummarisedIsClosed ==
    \A s \in DOMAIN summaries : windows[summaries[s].window].status = "closed"

\* The windows as a whole: counts may be too low and are never at odds.
WindowsSound == CountsAgree /\ NothingInvented /\ SummarisedIsClosed
=============================================================================
