---------------------------- MODULE Association ----------------------------
(***************************************************************************)
(* A client's association with the generic frontend server of YAZ          *)
(* (seshigh.c, requestq.c) and the event loop that drives it (eventl.c),   *)
(* over plain TCP.  Requests are known by their place in what the client   *)
(* put; when a read gives whole PDUs is the comstack's matter.             *)
(***************************************************************************)
EXTENDS Naturals, Sequences, FiniteSets

CONSTANTS MaxPdus,   \* bound on the PDUs a client puts
          Kinds,     \* what they are
          AsksAlive, \* whether a backend asks bend_assoc_is_alive in a search
          VirtualHosts, \* whether a configuration names virtual servers
          Habits     \* what the client may do that the server has no answer to

\* An Init and two HTTP requests, the last with "Connection: close", may name a
\* virtual host that is not configured.
Stray == {"strayinit", "strayhttp", "strayclose"}
Z3950Kinds == {"init", "strayinit", "search", "unsupported", "trigger", "close", "malformed"}
HttpKinds == {"http", "httpclose", "strayhttp", "strayclose", "badhttp"}
Malformed == {"malformed", "badhttp"}
LastOnes == {"httpclose", "strayclose"}

ASSUME AssociationAssumption ==
    /\ MaxPdus \in Nat /\ Kinds \subseteq Z3950Kinds \cup HttpKinds
    /\ AsksAlive \in BOOLEAN /\ VirtualHosts \in BOOLEAN
    /\ Kinds \cap Stray # {} => VirtualHosts
    /\ Habits \subseteq {"afterclose", "pipelinebad"}

VARIABLES stream,  \* the kinds of the PDUs the client has put
          client,  \* the client's end of the connection
          taken,   \* how many PDUs the server has got
          as,      \* the association and its I/O channel
          todo,    \* the events of this round of the event loop still to be given
          sock,    \* the server's end: what is partly written, and whether
                   \* there is room for more
          sent     \* what the client was sent, in order

vars == <<stream, client, taken, as, todo, sock, sent>>

Nothing == [req |-> 0, what |-> "none"]

Init ==
    /\ stream = <<>> /\ client = "open" /\ taken = 0
    /\ as = [state |-> "new", init |-> FALSE, version |-> 0, control |-> FALSE,
             backends |-> 0, backend |-> FALSE, incoming |-> <<>>, outgoing |-> <<>>,
             getmask |-> TRUE, putmask |-> FALSE, in |-> TRUE, out |-> FALSE,
             force |-> FALSE, destroyed |-> FALSE,
             cur |-> 0, more |-> FALSE, stale |-> FALSE]
    /\ todo = {} /\ sock = [partial |-> Nothing, room |-> TRUE]
    /\ sent = <<>>

-----------------------------------------------------------------------------
(* Steps of the handlers.                                                  *)

\* The head of the incoming queue is handled, if there is one.
NextRequest(a) ==
    IF a.incoming = <<>> THEN [a EXCEPT !.cur = 0, !.more = FALSE]
    ELSE [a EXCEPT !.cur = Head(a.incoming), !.incoming = Tail(@)]

\* process_gdu_response: the response goes to the outgoing queue, and the
\* requests that wait are handled.
RespondLast(a, item) ==
    [a EXCEPT !.outgoing = Append(@, item), !.out = TRUE, !.putmask = TRUE,
              !.cur = 0, !.more = FALSE]
Respond(a, item) ==
    NextRequest([a EXCEPT !.outgoing = Append(@, item), !.out = TRUE,
                          !.putmask = TRUE, !.more = TRUE])

\* do_close_req: both queues are purged; only version 3 has a Close PDU.
DoCloseNoPurge(a, i) ==
    LET p == [a EXCEPT !.outgoing = <<>>, !.state = "dead"]
    IN  IF a.version >= 3 THEN Respond(p, [req |-> i, what |-> "close"])
        ELSE [p EXCEPT !.force = TRUE, !.putmask = FALSE, !.cur = 0, !.more = FALSE]
DoClose(a, i) ==
    LET p == [a EXCEPT !.incoming = <<>>, !.outgoing = <<>>, !.state = "dead"]
    IN  IF a.version >= 3 THEN Respond(p, [req |-> i, what |-> "close"])
        ELSE [p EXCEPT !.force = TRUE, !.putmask = FALSE, !.cur = 0, !.more = FALSE]

\* destroy_association: bend_close, both queues are freed.  With no server's
\* options selected there is no bend_close to call, and the process crashes.
Destroyed(a) ==
    [a EXCEPT !.backends = IF a.backend /\ a.control THEN @ - 1 ELSE @, !.backend = FALSE,
              !.incoming = <<>>, !.outgoing = <<>>, !.putmask = FALSE,
              !.destroyed = TRUE, !.cur = 0, !.more = FALSE]

\* The loop of ir_read over whole PDUs, the next n of the stream: each is queued,
\* but one that does not decode ends the loop and the association.
EnqueuedFirst(a, n) ==
    [a EXCEPT !.getmask = TRUE, !.incoming = [i \in 1 .. n |-> taken + n + 1 - i] \o @]
Enqueued(a, n) ==
    [a EXCEPT !.getmask = TRUE, !.incoming = @ \o [i \in 1 .. n |-> taken + i]]
ReadBatch(a, n) ==
    LET kind == stream[taken + n]
    IN  IF kind = "malformed" THEN DoClose(Enqueued(a, n - 1), taken + n)
        ELSE IF kind = "badhttp"
        THEN Respond([Enqueued(a, n - 1) EXCEPT !.state = "dead"],
                      [req |-> taken + n, what |-> "response"])
        ELSE Enqueued(a, n)

\* The whole PDUs one ir_read may find: none that does not decode but the last.
Batches == {n \in 1 .. Len(stream) - taken :
              \A i \in 1 .. n - 1 : stream[taken + i] \notin Malformed}

-----------------------------------------------------------------------------
(* The event loop.                                                         *)

Readable == taken < Len(stream) \/ client # "open"
Writable == sock.room \/ client = "reset"

Events == {e \in {"input", "output", "except", "timeout"} :
             \/ e = "input" /\ as.in /\ Readable
             \/ e = "output" /\ as.out /\ Writable
             \/ e = "except" /\ client = "reset"
             \/ e = "timeout" /\ as.force}

Waiting == todo = {} /\ as.cur = 0 /\ ~as.destroyed

\* yaz_poll returns with events, or one was forced.
Poll ==
    /\ Waiting /\ Events # {}
    /\ todo' = Events
    /\ as' = [as EXCEPT !.force = FALSE]
    /\ UNCHANGED <<stream, client, taken, sock, sent>>

\* Nothing happened for max_idle seconds.
Idle ==
    /\ Waiting /\ Events = {}
    /\ todo' = {"timeout"}
    /\ UNCHANGED <<stream, client, taken, as, sock, sent>>

\* The events of a channel are given in this order, while it lives.
Before(e) == CASE e = "input" -> {} [] e = "output" -> {"input"}
               [] e = "except" -> {"input", "output"}
               [] e = "timeout" -> {"input", "output", "except"}
Event(e, a) ==
    /\ as.cur = 0 /\ e \in todo /\ todo \cap Before(e) = {}
    /\ as' = a
    /\ todo' = IF a.destroyed THEN {} ELSE todo \ {e}

-----------------------------------------------------------------------------
(* ir_session.                                                             *)

\* A dead association is closed, when it is listened to at all.
InputToDead ==
    /\ as.getmask => as.state = "dead"
    /\ Event("input", IF as.getmask THEN Destroyed(as) ELSE as)
    /\ UNCHANGED <<stream, client, taken, sock, sent>>

Listening == as.getmask /\ as.state # "dead"

\* Whole PDUs are read, and the first is handled; NextRequest leaves more as it
\* is, so its handler was called from ir_session.
Input(n) ==
    /\ Listening
    /\ LET a == ReadBatch(as, n)
       IN  Event("input", IF stream[taken + n] \in Malformed THEN a ELSE NextRequest(a))
    /\ taken' = taken + n
    /\ UNCHANGED <<stream, client, sock, sent>>

\* Part of a PDU has arrived.
InputIncomplete ==
    /\ Listening /\ taken < Len(stream)
    /\ Event("input", as)
    /\ UNCHANGED <<stream, client, taken, sock, sent>>

\* cs_get finds the end of the stream or an error.
AtEnd == client = "reset" \/ (client = "closed" /\ taken = Len(stream))
InputEnds ==
    /\ Listening /\ AtEnd
    /\ Event("input", [as EXCEPT !.state = "dead"])
    /\ UNCHANGED <<stream, client, taken, sock, sent>>

\* The PDU at the head of the outgoing queue has been put.
PutAll(a) ==
    IF Len(a.outgoing) = 1
    THEN [a EXCEPT !.outgoing = <<>>, !.out = FALSE, !.in = a.getmask,
                   !.putmask = FALSE, !.force = @ \/ a.state = "dead"]
    ELSE [a EXCEPT !.outgoing = Tail(@), !.putmask = TRUE]

\* cs_put goes on where the last one stopped, which may have been in another
\* PDU: then it fails, unless the two are of one size.
Spoilt == sock.partial \notin {Nothing, Head(as.outgoing)}
Putting == IF Spoilt THEN [Head(as.outgoing) EXCEPT !.what = "torn"]
           ELSE Head(as.outgoing)

Output ==
    /\ as.putmask /\ client # "reset" /\ sock.room
    /\ Event("output", PutAll(as))
    /\ sent' = Append(sent, Putting)
    /\ sock' = [sock EXCEPT !.partial = Nothing]
    /\ UNCHANGED <<stream, client, taken>>

OutputIncomplete ==
    /\ as.putmask /\ client # "reset" /\ sock.room
    /\ Event("output", as)
    /\ sock' = [partial |-> Putting, room |-> FALSE]
    /\ UNCHANGED <<stream, client, taken, sent>>

OutputFails ==
    /\ as.putmask /\ (client = "reset" \/ Spoilt)
    /\ Event("output", Destroyed(as))
    /\ UNCHANGED <<stream, client, taken, sock, sent>>

OutputIgnored ==
    /\ ~as.putmask
    /\ Event("output", as)
    /\ UNCHANGED <<stream, client, taken, sock, sent>>

Except ==
    /\ Event("except", Destroyed(as))
    /\ UNCHANGED <<stream, client, taken, sock, sent>>

\* Only a session that is up is closed with a PDU.
TimedOutCloses(a) == DoClose(a, 0)
TimedOut(a) == IF a.state = "up" THEN DoClose(a, 0) ELSE Destroyed(a)
Timeout ==
    /\ Event("timeout", TimedOut(as))
    /\ UNCHANGED <<stream, client, taken, sock, sent>>

-----------------------------------------------------------------------------
(* process_gdu_request.                                                    *)

Handling(kinds) == as.cur # 0 /\ stream[as.cur] \in kinds
Answer == [req |-> as.cur, what |-> "response"]

HandlerOnly == UNCHANGED <<stream, client, taken, todo, sock, sent>>

\* bend_init of a configured server: the old backend is closed; the new one takes
\* the session, refuses it with a diagnostic, or gives nothing.
OpenBackendLeaking(a) == [a EXCEPT !.init = TRUE, !.control = TRUE, !.backend = TRUE,
                                   !.backends = @ + 1]
OpenBackend(a) ==
    [a EXCEPT !.init = TRUE, !.control = TRUE, !.backend = TRUE,
              !.backends = IF a.backend THEN @ ELSE @ + 1]
NoBackend(a) ==
    [a EXCEPT !.init = TRUE, !.control = TRUE, !.backend = FALSE,
              !.backends = IF a.backend THEN @ - 1 ELSE @]

InitRequest ==
    /\ Handling({"init"})
    /\ \/ \E v \in {2, 3}, s \in {"up", "dead"} :
             as' = Respond([OpenBackend(as) EXCEPT !.version = v, !.state = s], Answer)
       \/ as' = DoClose(NoBackend(as), as.cur)
    /\ HandlerOnly

\* control_association finds no server: the Init gets a diagnostic, and the
\* backend of the session before is forgotten, not closed.
StrayInit ==
    /\ Handling({"strayinit"})
    /\ \E v \in {2, 3} :
         as' = Respond([as EXCEPT !.init = TRUE, !.control = FALSE, !.backend = FALSE,
                                  !.version = v, !.state = "dead"], Answer)
    /\ HandlerOnly

\* Search, Present, Scan, Sort and Delete need no more than an Init before, but
\* after one that no server took there is no handler for some of them.
Request ==
    /\ Handling({"search"})
    /\ \/ ~as.init /\ as' = DoClose(as, as.cur)
       \/ as.init /\ as' = Respond([as EXCEPT !.stale = FALSE], Answer)
       \/ /\ as.init /\ as.stale
          /\ \/ as' = Respond([as EXCEPT !.stale = FALSE], [Answer EXCEPT !.what = "torn"])
             \/ as' = DoClose([as EXCEPT !.stale = FALSE], as.cur)
       \/ as.init /\ ~as.control /\ as' = DoClose(as, as.cur)
    /\ HandlerOnly

\* The backend has no handler for it, or the APDU is not for servers.
Unsupported == Handling({"unsupported"}) /\ as' = DoClose(as, as.cur) /\ HandlerOnly

\* A TriggerResourceControlRequest has no response; only process_gdu_response
\* goes on with what waits.
Trigger ==
    /\ Handling({"trigger"})
    /\ as' = IF ~as.init THEN DoClose(as, as.cur)
             ELSE IF as.more THEN NextRequest(as) ELSE [as EXCEPT !.cur = 0]
    /\ HandlerOnly

\* process_close answers in version 3 whatever was negotiated.
CloseRequest ==
    /\ Handling({"close"})
    /\ as' = IF ~as.init THEN DoClose(as, as.cur)
             ELSE DoClose([as EXCEPT !.version = 3], as.cur)
    /\ HandlerOnly

\* control_association for the Host of a configured server: the backend of
\* another virtual server is closed first.
ServerChosen(a) ==
    {[a EXCEPT !.control = TRUE]} \cup
    {b \in {[a EXCEPT !.control = TRUE, !.init = FALSE, !.backend = FALSE, !.backends = @ - 1]} :
       VirtualHosts /\ a.backend}

\* A file, a 404 and what is not SRU need no backend; the first SRU request opens one.
SruOpened(a) ==
    IF a.init THEN {a}
    ELSE {a, OpenBackend(a), [OpenBackend(a) EXCEPT !.state = "dead"],
          [NoBackend(a) EXCEPT !.state = "dead"]}

\* The end of process_http_request: "Connection: close" ends the association.
HttpAnswered(a) ==
    Respond(IF stream[as.cur] \in LastOnes
            THEN [a EXCEPT !.state = "dead", !.getmask = FALSE] ELSE a, Answer)

HttpRequest ==
    /\ Handling({"http", "httpclose"}) /\ (as.backend => as.control)
    /\ \E b \in ServerChosen(as) : \E a \in SruOpened(b) : as' = HttpAnswered(a)
    /\ HandlerOnly

\* The Host is not configured, so the answer is 404.
StrayRequest ==
    /\ Handling({"strayclose"})
    /\ as' = HttpAnswered([as EXCEPT !.control = FALSE])
    /\ HandlerOnly

\* Without a server: its keepalive is read for an answer that is not the last,
\* bend_close is called for another server, bend_fetch for a Present.
Astray ==
    /\ as.cur # 0
    /\ \/ stream[as.cur] = "strayhttp"
       \/ stream[as.cur] \in {"http", "httpclose"} /\ as.backend /\ ~as.control
       \/ stream[as.cur] = "search" /\ as.init /\ ~as.control

\* A pointer that is null is followed: the process ends, and all it had.
Crash ==
    /\ Astray
    /\ as' = Destroyed([as EXCEPT !.control = FALSE]) /\ todo' = {}
    /\ UNCHANGED <<stream, client, taken, sock, sent>>

\* bend_assoc_is_alive in a search: what has arrived is read, and queued behind
\* the request in progress.  A Close that this queues is encoded in the memory
\* the backend builds its response in, and frees that.
IsAlive ==
    /\ AsksAlive /\ Handling({"search"}) /\ as.init /\ as.state # "dead" /\ Readable
    /\ \/ \E n \in Batches :
            LET a == ReadBatch(as, n)
            IN  /\ as' = [a EXCEPT !.cur = as.cur, !.more = as.more,
                                   !.stale = /\ stream[taken + n] = "malformed"
                                              /\ as.version >= 3]
                /\ taken' = taken + n
       \/ AtEnd /\ as' = [as EXCEPT !.state = "dead"] /\ UNCHANGED taken
    /\ UNCHANGED <<stream, client, todo, sock, sent>>

Handlers == \/ InitRequest \/ Request \/ Unsupported \/ Trigger \/ CloseRequest
            \/ HttpRequest \/ StrayInit \/ StrayRequest \/ Crash

-----------------------------------------------------------------------------
(* The client and the network.                                             *)

AskedToClose == \E i \in DOMAIN stream : stream[i] \in LastOnes

Put(kind) ==
    /\ client = "open" /\ ~as.destroyed /\ Len(stream) < MaxPdus
    /\ stream # <<>> => (kind \in HttpKinds <=> stream[1] \in HttpKinds)
    /\ AskedToClose => "afterclose" \in Habits
    /\ (kind = "badhttp" /\ "pipelinebad" \notin Habits) =>
         (taken = Len(stream) /\ as.cur = 0)
    /\ stream' = Append(stream, kind)
    /\ UNCHANGED <<client, taken, as, todo, sock, sent>>

\* The client closes its end, or the connection breaks.
Leave ==
    /\ client = "open" /\ ~as.destroyed
    /\ client' \in IF (AskedToClose /\ "afterclose" \notin Habits) THEN {"reset"}
                   ELSE {"closed", "reset"}
    /\ UNCHANGED <<stream, taken, as, todo, sock, sent>>

\* The client reads, and there is room again.
Reads ==
    /\ ~sock.room /\ client = "open" /\ ~as.destroyed
    /\ sock' = [sock EXCEPT !.room = TRUE]
    /\ UNCHANGED <<stream, client, taken, as, todo, sent>>

Session == \/ InputToDead \/ (\E n \in Batches : Input(n)) \/ InputIncomplete
           \/ InputEnds \/ Output \/ OutputIncomplete \/ OutputFails
           \/ OutputIgnored \/ Except \/ Timeout
Client == Leave \/ Reads \/ \E kind \in Kinds : Put(kind)

Next == Poll \/ Idle \/ Session \/ Handlers \/ IsAlive \/ Client

Spec == Init /\ [][Next]_vars

\* The event loop runs, a backend finishes what it does, and time passes.
\* A PDU has an end: it has not for ever arrived, or been sent, in part.
FairSpec == /\ Spec /\ WF_vars(Poll) /\ WF_vars(Idle) /\ WF_vars(Session) /\ WF_vars(Handlers)
            /\ SF_vars(\E n \in Batches : Input(n)) /\ SF_vars(Output)
=============================================================================
