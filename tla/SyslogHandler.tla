----------------------------- MODULE SyslogHandler -----------------------------
(***************************************************************************)
(* SyslogHandler (handler/syslog_handler.py): the standard library's       *)
(* handler as a transport that is opened by the first record and closed by *)
(* close(), and a daemon that goes away and comes back.  Nothing is locked *)
(* (emit() is called past the lock its close() takes), so that each read   *)
(* and each assignment of _transport, and each use of a socket, is a step. *)
(*                                                                         *)
(* A transport is a number, None one that is not there.  Its socket is     *)
(*   "none"   the attribute is None: close() was called                    *)
(*   "shut"   a local socket that found no daemon                          *)
(*   "live"   connected, or of datagrams to an address                     *)
(*   "stale"  connected to a daemon that went away                         *)
(***************************************************************************)
EXTENDS Naturals, Sequences

CONSTANTS Senders, Services

None == 0

\* A service: the kind of address, who logs and who closes, and how much happens.
SyslogAssumption ==
    \A s \in Services :
        /\ s.kind \in {"udp", "tcp", "unix"}
        /\ s.loggers \subseteq Senders /\ s.closers \subseteq Senders
        /\ s.records \in Nat /\ s.closes \in Nat /\ s.outages \in Nat

VARIABLES
    service,
    up,         \* whether the daemon listens
    outages,    \* how often it went away
    transport,  \* _transport
    sockets,    \* sockets[i]: the socket of transport i
    at,         \* at[t]: where thread t is
    held,       \* held[t]: the local `transport`
    begun,      \* records written so far
    closes,     \* calls of close() so far
    calm,       \* history: calm[t]: the daemon listened since t's write began
    written     \* history: how each write ended

syslogVars == <<service, up, outages, transport, sockets, at, held, begun, closes, calm, written>>

Begins(s, listens) ==
    /\ service = s
    /\ up = listens
    /\ outages = 0 /\ transport = None /\ sockets = <<>>
    /\ at = [t \in Senders |-> "idle"]
    /\ held = [t \in Senders |-> None]
    /\ begun = 0 /\ closes = 0
    /\ calm = [t \in Senders |-> FALSE]
    /\ written = {}

Init == \E s \in Services, listens \in BOOLEAN : Begins(s, listens)

Kind == service.kind
Go(t, there) == at' = [at EXCEPT ![t] = there]
SocketOf(t)  == sockets[held[t]]
Becomes(t, s) == sockets' = [sockets EXCEPT ![held[t]] = s]

\* The write is over: whether a socket took the record, whether it raised.
Ended(t, sent, raised) ==
    /\ written' = written \cup
           {[sent |-> sent, raised |-> raised, calm |-> calm[t],
             old |-> held[t] # None /\ SocketOf(t) = "stale"]}
    /\ Go(t, "idle")
    /\ held' = [held EXCEPT ![t] = None]

\* A slip: as the standard library has it, an error is told and forgotten.
Forgets == FALSE

\* handleError(): what emit() runs into is raised.
Surfaces == TRUE

-----------------------------------------------------------------------------
(* write() *)

\* _transport is looked at, and read again or opened.
BeginWrite(t) ==
    /\ at[t] = "idle" /\ t \in service.loggers /\ begun < service.records
    /\ begun' = begun + 1
    /\ Go(t, IF transport = None THEN "open" ELSE "take")
    /\ calm' = [calm EXCEPT ![t] = up]
    /\ UNCHANGED <<service, up, outages, transport, sockets, held, closes, written>>

Take(t) ==
    /\ at[t] = "take"
    /\ held' = [held EXCEPT ![t] = transport]
    /\ Go(t, "check")
    /\ UNCHANGED <<service, up, outages, transport, sockets, begun, closes, calm, written>>

\* A stream that is refused raises; a local socket is left shut.
Refused == Kind = "tcp" /\ ~up
Connected == IF Kind = "unix" /\ ~up THEN "shut" ELSE "live"

\* _open_transport(): the transport connects while it is built.
Open(t) ==
    /\ at[t] = "open"
    /\ IF Refused
       THEN Ended(t, FALSE, TRUE) /\ UNCHANGED sockets
       ELSE /\ sockets' = Append(sockets, Connected)
            /\ held' = [held EXCEPT ![t] = Len(sockets')]
            /\ Go(t, "keep")
            /\ UNCHANGED written
    /\ UNCHANGED <<service, up, outages, transport, begun, closes, calm>>

Keep(t) ==
    /\ at[t] = "keep"
    /\ transport' = held[t]
    /\ Go(t, "check")
    /\ UNCHANGED <<service, up, outages, sockets, held, begun, closes, calm, written>>

\* emit(): a transport that was closed connects anew; None has no emit().
Check(t) ==
    /\ at[t] = "check"
    /\ IF held[t] = None \/ (SocketOf(t) = "none" /\ Refused)
       THEN Ended(t, FALSE, held[t] = None \/ Surfaces) /\ UNCHANGED sockets
       ELSE /\ IF SocketOf(t) = "none" THEN Becomes(t, Connected) ELSE UNCHANGED sockets
            /\ Go(t, "send")
            /\ UNCHANGED <<held, written>>
    /\ UNCHANGED <<service, up, outages, transport, begun, closes, calm>>

\* What a socket does with a record: a broken stream may take one more.
Taken(t)  == SocketOf(t) = "live" \/ (Kind = "tcp" /\ SocketOf(t) = "stale")
Broken(t) == SocketOf(t) # "live"

Send(t) ==
    /\ at[t] = "send"
    /\ \/ Taken(t) /\ Ended(t, TRUE, FALSE)
       \/ /\ Broken(t)
          /\ IF Kind = "unix" /\ SocketOf(t) # "none"
             THEN Go(t, "again") /\ UNCHANGED <<held, written>>
             ELSE Ended(t, FALSE, Surfaces)
    /\ UNCHANGED <<service, up, outages, transport, sockets, begun, closes, calm>>

\* A local socket is connected once more, and the record sent once more.
Reconnect(t) ==
    /\ at[t] = "again"
    /\ IF SocketOf(t) = "none" \/ ~up
       THEN /\ IF SocketOf(t) = "none" THEN UNCHANGED sockets ELSE Becomes(t, "shut")
            /\ Ended(t, FALSE, Surfaces)
       ELSE Becomes(t, "live") /\ Go(t, "resend") /\ UNCHANGED <<held, written>>
    /\ UNCHANGED <<service, up, outages, transport, begun, closes, calm>>

Resend(t) ==
    /\ at[t] = "resend"
    /\ IF SocketOf(t) = "live" THEN Ended(t, TRUE, FALSE) ELSE Ended(t, FALSE, Surfaces)
    /\ UNCHANGED <<service, up, outages, transport, sockets, begun, closes, calm>>

-----------------------------------------------------------------------------
(* close() *)

BeginClose(t) ==
    /\ at[t] = "idle" /\ t \in service.closers /\ closes < service.closes
    /\ closes' = closes + 1
    /\ Go(t, IF transport = None THEN "idle" ELSE "shutting")
    /\ UNCHANGED <<service, up, outages, transport, sockets, held, begun, calm, written>>

\* A slip: the transport is let go of as it is.
LeftOpen(i) == sockets[i]

Shut(i) == "none"

\* _transport is read again: None has no close().
ShutTransport(t) ==
    /\ at[t] = "shutting"
    /\ IF transport = None
       THEN Go(t, "idle") /\ UNCHANGED sockets
       ELSE /\ sockets' = [sockets EXCEPT ![transport] = Shut(transport)]
            /\ Go(t, "unset")
    /\ UNCHANGED <<service, up, outages, transport, held, begun, closes, calm, written>>

ForgetTransport(t) ==
    /\ at[t] = "unset"
    /\ transport' = None
    /\ Go(t, "idle")
    /\ UNCHANGED <<service, up, outages, sockets, held, begun, closes, calm, written>>

-----------------------------------------------------------------------------
(* The daemon *)

Stop ==
    /\ up /\ outages < service.outages
    /\ up' = FALSE
    /\ outages' = outages + 1
    /\ sockets' = [i \in DOMAIN sockets |->
           IF Kind # "udp" /\ sockets[i] = "live" THEN "stale" ELSE sockets[i]]
    /\ calm' = [t \in Senders |-> FALSE]
    /\ UNCHANGED <<service, transport, at, held, begun, closes, written>>

Restart ==
    /\ ~up /\ up' = TRUE
    /\ UNCHANGED <<service, outages, transport, sockets, at, held, begun, closes, calm, written>>

Next ==
    \/ \E t \in Senders :
           \/ BeginWrite(t) \/ Take(t) \/ Open(t) \/ Keep(t) \/ Check(t)
           \/ Send(t) \/ Reconnect(t) \/ Resend(t)
           \/ BeginClose(t) \/ ShutTransport(t) \/ ForgetTransport(t)
    \/ Stop \/ Restart

Spec == Init /\ [][Next]_syslogVars

-----------------------------------------------------------------------------
(* Properties *)

TypeOK ==
    /\ \A i \in DOMAIN sockets : sockets[i] \in {"none", "shut", "live", "stale"}
    /\ transport \in 0 .. Len(sockets)
    /\ \A t \in Senders : held[t] \in 0 .. Len(sockets) /\ at[t] \in {"idle", "open", "take", "keep",
           "check", "send", "again", "resend", "shutting", "unset"}

\* A record that no socket took is raised to who logged it, and none that one
\* took is: a group with a backup writes it once.
TakenOrRaised == \A w \in written : w.raised = ~w.sent

\* One thread logs and closes; nobody closes while another logs.
Alone == \E t \in Senders : service.loggers \cup service.closers = {t}
Undisturbed == service.closes = 0 \/ Alone

\* With a daemon that listens all along, a record is refused by nothing but a
\* stream that broke before: a local socket, a datagram and what was opened
\* after a close() find the daemon that came back.
ComesBack ==
    Undisturbed => \A w \in written : w.raised /\ w.calm => Kind = "tcp" /\ w.old

\* With one thread, no connection is open but that of the transport in use.
OneConnection ==
    Alone =>
        \A i \in DOMAIN sockets :
            sockets[i] \in {"live", "stale"} => i = transport \/ \E t \in Senders : i = held[t]
=============================================================================
