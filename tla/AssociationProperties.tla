----------------------- MODULE AssociationProperties -----------------------
(***************************************************************************)
(* That no request, no answer and no dead association is forgotten by the  *)
(* event loop, whatever the order of its events.                           *)
(***************************************************************************)
EXTENDS Association

\* When the event loop waits, no request is left in the incoming queue, except
\* behind a TriggerResourceControl; what is to be sent waits for room only; a
\* living association is listened to; and a dead one will be closed.  Nor does
\* the loop write for an association that has nothing to send.
NeverSleeps ==
    /\ as.putmask /\ ~as.destroyed => as.outgoing # <<>>
    /\ Waiting =>
         /\ (\A i \in 1 .. taken : stream[i] # "trigger") => as.incoming = <<>>
         /\ as.outgoing # <<>> => as.putmask /\ as.out
         /\ as.state # "dead" => as.in /\ as.getmask
         /\ as.state = "dead" /\ as.outgoing = <<>> =>
              as.force \/ (as.in /\ as.getmask /\ Readable)

Responses == {k \in DOMAIN sent : sent[k].what = "response"}
Unbroken(k) == \A j \in 1 .. k : sent[j].what = "response"

\* Requests are answered once each and in their order; until the session is
\* closed, or something was read that does not decode, none but a
\* TriggerResourceControl is left out.
AnswersInOrder ==
    /\ \A j, k \in Responses : j < k => sent[j].req < sent[k].req
    /\ \A k \in Responses :
         Unbroken(k) /\ (\A i \in 1 .. taken : stream[i] # "malformed") =>
           {i \in 1 .. sent[k].req : stream[i] # "trigger"} = {sent[j].req : j \in 1 .. k}

\* Nothing follows a Close but the answer to a request that was being handled
\* when a later one closed the session.
CloseIsLast ==
    \A j, k \in DOMAIN sent :
      j < k /\ sent[j].what = "close" => sent[k].req < sent[j].req

\* No backend handle is closed twice; and each is closed by the end, unless the
\* client named a virtual host that is not configured.
BackendsClosed ==
    LET kept == IF as.backend THEN 1 ELSE 0
    IN  /\ as.backends >= kept
        /\ (\A i \in 1 .. taken : stream[i] \notin Stray) => as.backends = kept

\* A dead association is closed some time, whether or not the client reads.
DeadIsDestroyed == as.state = "dead" ~> as.destroyed
=============================================================================
