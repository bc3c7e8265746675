-------------------------- MODULE StreamSupervisor --------------------------
(***************************************************************************)
(* The supervisor of one Horizon event stream, and the manager that adds   *)
(* and removes it (src/backend/src/services/horizonStreamSupervisor.       *)
(* service.ts).  Events are numbered in the server's order and a paging    *)
(* token is the event's number; cursor 0 stands for none.  Every event has *)
(* one: an event with neither paging_token nor id, which _processLine      *)
(* hands on without moving the cursor, is left out.                        *)
(*                                                                         *)
(* One _connect call is alive at a time and conn is where it is: waiting   *)
(* for fetch, reading the body, or returned.  Its abort timer is cleared   *)
(* only when fetch answers, so the timers of attempts that could not reach *)
(* the server stay behind: stray says whether one is left.  Such a timer   *)
(* aborts whichever attempt is current when it fires.                      *)
(***************************************************************************)
EXTENDS Naturals, Sequences

CONSTANTS
    MaxReconnects,   \* maxReconnectAttempts
    MaxEvents        \* bound on the events the server ever has

ASSUME StreamAssumption == MaxReconnects \in Nat /\ MaxEvents \in Nat \ {0}

VARIABLES
    supervised,   \* whether the manager holds a supervisor for the stream
    status,       \* the supervisor's StreamStatus
    conn,         \* "none", "fetching" or "reading"
    lastCursor,   \* the paging token of the last event processed
    heard,        \* whether lastEventAt is set
    gapDetected,
    reconnectCount,
    reconnectTimer,
    stray,
    outage,       \* whether the outage has been announced
    pos,          \* the last event of this response that was processed
    sent,         \* the last event the server has written to this response
    origin,       \* the cursor the stream was added with (history)
    emitted,      \* the events handed to listeners (history)
    failures      \* attempts failed since the last connection (history)

streamVars == <<supervised, status, conn, lastCursor, heard, gapDetected,
                reconnectCount, reconnectTimer, stray, outage, pos, sent,
                origin, emitted, failures>>

StreamInit ==
    /\ supervised = FALSE /\ status = "closed" /\ conn = "none"
    /\ lastCursor = 0 /\ heard = FALSE /\ gapDetected = FALSE
    /\ reconnectCount = 0 /\ reconnectTimer = FALSE /\ stray = FALSE
    /\ outage = FALSE /\ pos = 0 /\ sent = 0
    /\ origin = 0 /\ emitted = <<>> /\ failures = 0

\* HorizonStreamManager.add constructs a supervisor and starts it.
add(cursor) ==
    /\ ~supervised
    /\ supervised' = TRUE /\ status' = "connecting" /\ conn' = "fetching"
    /\ lastCursor' = cursor /\ origin' = cursor /\ emitted' = <<>>
    /\ pos' = cursor /\ sent' = cursor
    /\ heard' = FALSE /\ gapDetected' = FALSE /\ outage' = FALSE
    /\ reconnectCount' = 0 /\ failures' = 0
    /\ reconnectTimer' = FALSE /\ stray' = FALSE

\* HorizonStreamManager.remove stops the supervisor and forgets it.
remove ==
    /\ supervised
    /\ supervised' = FALSE /\ status' = "closed" /\ conn' = "none"
    /\ reconnectTimer' = FALSE
    /\ UNCHANGED <<lastCursor, heard, gapDetected, reconnectCount, stray,
                   outage, pos, sent, origin, emitted, failures>>

\* Mutant: the reconnection asks for the stream without its cursor.
connected_FromStart ==
    /\ conn = "fetching"
    /\ conn' = "reading" /\ status' = "connected"
    /\ reconnectCount' = 0 /\ failures' = 0 /\ gapDetected' = FALSE
    /\ pos' = origin /\ sent' = origin
    /\ UNCHANGED <<supervised, lastCursor, heard, reconnectTimer, stray,
                   outage, origin, emitted>>

\* fetch answers well: the body starts after the cursor in the request.
connected ==
    /\ conn = "fetching"
    /\ conn' = "reading" /\ status' = "connected"
    /\ reconnectCount' = 0 /\ failures' = 0 /\ gapDetected' = FALSE
    /\ pos' = lastCursor /\ sent' = lastCursor
    /\ UNCHANGED <<supervised, lastCursor, heard, reconnectTimer, stray,
                   outage, origin, emitted>>

_scheduleReconnect ==
    /\ failures' = failures + 1
    /\ IF reconnectCount >= MaxReconnects
       THEN /\ outage' = TRUE /\ status' = "error"
            /\ UNCHANGED <<reconnectCount, reconnectTimer>>
       ELSE /\ reconnectCount' = reconnectCount + 1
            /\ reconnectTimer' = TRUE /\ status' = "reconnecting"
            /\ outage' = outage

\* An attempt or a connection fails with an error that is no abort.  A fetch
\* that rejects leaves its abort timer running; a bad answer has cleared it.
fail(leavesTimer) ==
    /\ conn' = "none"
    /\ stray' = (stray \/ leavesTimer)
    /\ _scheduleReconnect
    /\ UNCHANGED <<supervised, lastCursor, heard, gapDetected, pos, sent,
                   origin, emitted>>

unreachable == conn = "fetching" /\ fail(TRUE)
badAnswer == conn = "fetching" /\ fail(FALSE)
broken == conn = "reading" /\ fail(FALSE)

\* _connect returns with nothing scheduled and the status as it was.
goSilent ==
    /\ conn' = "none"
    /\ UNCHANGED <<supervised, status, lastCursor, heard, gapDetected,
                   reconnectCount, reconnectTimer, outage, pos, sent, origin,
                   emitted, failures>>

\* The attempt's own timer, or a stray one, aborts it: AbortError returns.
abortOwn == conn = "fetching" /\ stray' = stray /\ goSilent
abortStray == stray /\ conn # "none" /\ stray' \in BOOLEAN /\ goSilent

\* The server ends the response after its last whole line: the loop breaks.
ended == conn = "reading" /\ pos = sent /\ stray' = stray /\ goSilent

\* The server writes events to the open response (external).
serverWrites(e) ==
    /\ conn = "reading" /\ e \in sent + 1 .. MaxEvents
    /\ sent' = e
    /\ UNCHANGED <<supervised, status, conn, lastCursor, heard, gapDetected,
                   reconnectCount, reconnectTimer, stray, outage, pos, origin,
                   emitted, failures>>

\* A chunk whose whole lines reach up to event e is processed line by line;
\* the rest stays in the buffer, which dies with the response.
_processLines(e) ==
    /\ conn = "reading" /\ e \in pos + 1 .. sent
    /\ pos' = e /\ lastCursor' = e /\ heard' = TRUE /\ gapDetected' = FALSE
    /\ emitted' = emitted \o [i \in 1 .. e - pos |-> pos + i]
    /\ UNCHANGED <<supervised, status, conn, reconnectCount, reconnectTimer,
                   stray, outage, sent, origin, failures>>

\* The reconnect timer fires and calls _connect.
reconnect ==
    /\ reconnectTimer
    /\ reconnectTimer' = FALSE /\ conn' = "fetching" /\ status' = "connecting"
    /\ UNCHANGED <<supervised, lastCursor, heard, gapDetected, reconnectCount,
                   stray, outage, pos, sent, origin, emitted, failures>>

\* Mutant: the check looks at open responses only.
gapCheck_Open ==
    /\ supervised /\ status = "connected" /\ heard /\ ~gapDetected
    /\ conn = "reading" /\ gapDetected' = TRUE
    /\ UNCHANGED <<supervised, status, conn, lastCursor, heard, reconnectCount,
                   reconnectTimer, stray, outage, pos, sent, origin, emitted,
                   failures>>

\* The interval of _startGapCheck finds the last event too long ago.
gapCheck ==
    /\ supervised /\ status = "connected" /\ heard /\ ~gapDetected
    /\ gapDetected' = TRUE
    /\ UNCHANGED <<supervised, status, conn, lastCursor, heard, reconnectCount,
                   reconnectTimer, stray, outage, pos, sent, origin, emitted,
                   failures>>

StreamNext ==
    \/ \E c \in 0 .. 1 : add(c)
    \/ remove \/ connected \/ unreachable \/ badAnswer \/ broken
    \/ abortOwn \/ abortStray \/ ended \/ reconnect \/ gapCheck
    \/ \E e \in 1 .. MaxEvents : serverWrites(e) \/ _processLines(e)

\* The supervisor by itself.
StreamSpec == StreamInit /\ [][StreamNext]_streamVars

-----------------------------------------------------------------------------
StreamFlags ==
    {supervised, heard, gapDetected, reconnectTimer, stray, outage} \subseteq BOOLEAN

\* The shape of the supervisor's state: its status agrees with the attempt it
\* has open, and the attempts never exceed their maximum.
StreamTypeOK ==
    /\ StreamFlags
    /\ reconnectCount \in 0 .. MaxReconnects
    /\ failures \in 0 .. MaxReconnects + 1
    /\ 0 <= lastCursor /\ pos <= sent /\ sent <= MaxEvents
    /\ conn = "fetching" => status = "connecting"
    /\ conn = "reading" => status = "connected"

\* Over every reconnection, abort and half-read chunk the listeners get the
\* server's events after the initial cursor in order, each one once.
EventsInOrder ==
    emitted = [i \in 1 .. lastCursor - origin |-> origin + i]

\* A reconnection is never scheduled beside an open attempt, so no two
\* attempts run at once; and the outage is announced only when the first
\* attempt and all MaxReconnects others failed in a row, with nothing running.
ReconnectsInTurn ==
    /\ reconnectTimer => conn = "none"
    /\ outage /\ supervised =>
          conn = "none" /\ ~reconnectTimer /\ failures = MaxReconnects + 1

\* The supervisor as a whole: events in order, attempts in turn.
StreamSound == StreamTypeOK /\ EventsInOrder /\ ReconnectsInTurn

\* A stream whose body ended or was aborted after an event, and that still
\* says it is connected, is reported by the gap check.
DeadIsReported ==
    (supervised /\ status = "connected" /\ conn = "none" /\ heard)
        ~> (gapDetected \/ ~supervised)
=============================================================================
