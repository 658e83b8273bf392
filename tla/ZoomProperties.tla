--------------------------- MODULE ZoomProperties ---------------------------
(***************************************************************************)
(* What a ZOOM connection must do for an application that polls it with    *)
(* ZOOM_event, whatever the server answers and wherever the connection     *)
(* breaks.                                                                 *)
(***************************************************************************)
EXTENDS ZoomConnection

\* No assertion of the client fails and no list head that is not there is
\* looked at (assert in ZOOM_connection_Z3950_search, HandleInit and
\* es_response; c->tasks->which in do_io and in ZOOM_test_reconnect).
NoAbort == ~conn.aborted

-----------------------------------------------------------------------------
(* Requests and tasks.                                                     *)

\* The kinds of request a task may have under way.
Sends(t) == CASE t.which = "connect" -> {"init"}
              [] t.which = "search" -> {"search", "present", "sort"}
              [] t.which \in {"sort", "scan", "package"} -> {t.which}

Outstanding == net.wire \o (IF conn.out = NoRequest THEN <<>> ELSE <<conn.out>>)

\* Responses carry no reference id, so the client takes each for the answer to
\* the task at the head of the list: never more than one request is under way,
\* and it is that task's own, for that task's result set.
AnswersMatch ==
    /\ Len(Outstanding) <= 1
    /\ \A i \in DOMAIN Outstanding :
         LET req == Outstanding[i]
             t == Head(conn.tasks)
         IN  /\ conn.tasks # <<>> /\ t.running
             /\ req.kind \in Sends(t)
             /\ t.rs # NoSet => req.rs = t.rs /\ req.q = sets[t.rs].q

\* Nothing but an Init request goes to a Z39.50 server that has not accepted
\* one in this session.
InitFirst ==
    net.proto = "z3950" =>
      \A i \in DOMAIN net.wire : (net.wire[i].kind = "init") <=> ~net.inited

\* A result set is freed exactly when neither the application nor a task that
\* is still queued refers to it, whoever gives up last.
RefCounts ==
    \A r \in ResultSet :
      sets[r].ref = (IF sets[r].app THEN 1 ELSE 0) + Naming(conn.tasks, r)

\* ZOOM_event returns 0 for good: no event, nothing to run, and no socket that
\* could be waited for.
Exhausted == /\ ~conn.aborted /\ conn.events = <<>> /\ ~Runnable
             /\ conn.cs = "none" \/ conn.mask = {}

\* doc/zoom.events: to ensure that all outstanding requests are performed,
\* call ZOOM_event until it returns zero.
DoneWhenZero == Exhausted => conn.tasks = <<>>

-----------------------------------------------------------------------------
(* Records.                                                                *)

\* As long as the server keeps each set under its own name, every record in
\* the cache of a result set answers the query of that set, though sets,
\* sessions and connections come and go and their names are used again.
RecordsFromOwnQuery ==
    \A r \in ResultSet : sets[r].name # Default =>
      \A p \in Position : sets[r].cache[p].q \in {-1, 0, sets[r].q}

\* Nor does such a cache mix records from before a sort with records from
\* after, unless the sort was asked for while another task for the set was
\* queued: what that task still fetches comes unsorted into the emptied cache.
OneOrder ==
    \A r \in ResultSet : sets[r].name # Default /\ ~sets[r].crossed =>
      \A p, o \in Position :
        LET a == sets[r].cache[p]
            b == sets[r].cache[o]
        IN  a.q > 0 /\ b.q = a.q => a.sorted = b.sorted

\* The task at the head of the list is over in this step.
Ended(t) == Len(conn'.tasks) < Len(conn.tasks) /\ t.which = "search"

\* When a search ends without an error its size is known, and each record it
\* was asked for is in the cache, unless the server had no more of them or a
\* sort was asked for meanwhile, which empties the cache.
Delivers ==
    LET t == Head(conn.tasks)
        s == sets'[t.rs]
    IN  conn.tasks # <<>> /\ Ended(t) /\ conn'.error = "none" /\ s.ref > 0 =>
          /\ s.live
          /\ s.crossed \/ \A p \in t.asked :
               p < s.size => \/ s.cache[p] # NoRecord
                             \/ \E o \in t.asked : o < p /\ s.cache[o] = MadeUp

RecordsDelivered == [][RunTask \/ Poll => Delivers]_vars

\* The error of a lost connection stays until the application connects anew:
\* another search does not help (clear_error).
ErrorStays ==
    [][conn.error \in Sticky /\ ~Connect => conn'.error # "none"]_vars

\* Every task is performed or given up, as long as each attempt to read, write
\* or connect ends some time, if only by the timeout.
TasksEnd == conn.tasks # <<>> ~> conn.tasks = <<>>
=============================================================================
