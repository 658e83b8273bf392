--------------------------- MODULE ZoomConnection ---------------------------
(***************************************************************************)
(* A ZOOM connection in asynchronous mode: struct ZOOM_connection_p with   *)
(* its list of tasks and of events, the result sets that share it, and the *)
(* one server at the other end of its comstack.  One client thread calls   *)
(* the API and ZOOM_event; each call is a step.  The chained C handlers    *)
(* are operators on a record w of everything they can change; a parameter  *)
(* ch says how the comstack behaved while they ran.                        *)
(***************************************************************************)
EXTENDS Integers, Sequences, FiniteSets

CONSTANTS ResultSet,     \* handles for result sets
          NoSet,         \* the result set of a task that has none
          MaxHits,       \* bound on the size of a result set
          Step,          \* option presentChunk: records per request, 0 for all
          Protocols,     \* protocols the server may speak: "z3950", "http"
          Ops,           \* the API calls the application makes
          Careless,      \* what an application does that it should not
          Habits,        \* what a server may do: "redirect" and "withhold" for
                         \* SRU, "explain" a refused Init with a diagnostic
          MaxRedirects,  \* the code's limit of redirects, 10
          MaxTasks,      \* bound on the tasks queued at a time
          MaxCalls       \* bound on the API calls

ASSUME ZoomAssumption ==
    /\ NoSet \notin ResultSet /\ IsFiniteSet(ResultSet)
    /\ MaxHits \in Nat /\ Step \in Nat /\ MaxTasks \in Nat /\ MaxCalls \in Nat
    /\ MaxRedirects \in Nat /\ Habits \subseteq {"redirect", "withhold", "explain"}
    /\ Protocols \subseteq {"z3950", "http"}

VARIABLES conn,    \* the connection
          sets,    \* the result sets
          net,     \* the wire and the server's side of the session
          calls    \* API calls made so far

vars == <<conn, sets, net, calls>>

Position == 0 .. MaxHits - 1
Unset == -1                                  \* no set name allocated
Default == 0                                 \* the name "default"
Name == 0 .. Cardinality(ResultSet)

\* A record is known by the query it answers (0: made up by the client) and
\* by whether the server had sorted the set when it was fetched.
NoRecord == [q |-> -1, sorted |-> FALSE]
MadeUp == [q |-> 0, sorted |-> FALSE]

\* crossed is a ghost: when the set was last to be sorted another task for it was
\* queued.
FreeSet == [ref |-> 0, app |-> FALSE, q |-> 0, live |-> FALSE, size |-> 0,
            name |-> Unset, sort |-> FALSE, crossed |-> FALSE,
            cache |-> [p \in Position |-> NoRecord]]

\* asked is a ghost: the positions the application asked this task for.
Task(which, r, start, count) ==
    [which |-> which, running |-> FALSE, rs |-> r, start |-> start,
     count |-> count, asked |-> start .. start + count - 1]
Plain(which) == Task(which, NoSet, 0, 0)

Request(kind, r, q, name, start, num) ==
    [kind |-> kind, rs |-> r, q |-> q, name |-> name, start |-> start,
     num |-> num]
NoRequest == Request("none", NoSet, 0, Unset, 0, 0)

Smaller(a, b) == IF a < b THEN a ELSE b

-----------------------------------------------------------------------------
(* Events, errors, tasks and references.                                   *)

SetError(w, e) == [w EXCEPT !.conn.error = e]
PutEvent(w, kind) == [w EXCEPT !.conn.events = Append(@, kind)]
Returns(w, ret) == [w EXCEPT !.ret = ret]
Abort(w) == [w EXCEPT !.conn.aborted = TRUE]
SetMask(w, mask) == [w EXCEPT !.conn.mask = mask]

\* Errors that a further operation cannot mend.
StickyNoInit == {"connect", "decode", "lost"}
Sticky == {"connect", "decode", "lost", "init"}

ClearErrorAlways(w) == [w EXCEPT !.conn.events = <<>>, !.conn.error = "none"]
ClearError(w) ==
    [w EXCEPT !.conn.events = <<>>,
              !.conn.error = IF @ \in Sticky THEN @ ELSE "none"]

AddTask(w, t) == ClearError([w EXCEPT !.conn.tasks = Append(@, t)])
InsertTask(w, t) == [w EXCEPT !.conn.tasks = <<t>> \o @]

Naming(tasks, r) == Cardinality({i \in DOMAIN tasks : tasks[i].rs = r})

\* n references to a set are given up; the last one frees it.
Unref(s, n) == IF n > 0 /\ s.ref <= n THEN FreeSet ELSE [s EXCEPT !.ref = @ - n]

RemoveTask(w) ==
    IF w.conn.tasks = <<>> THEN w
    ELSE LET t == Head(w.conn.tasks)
             rest == Tail(w.conn.tasks)
             w1 == [w EXCEPT !.conn.tasks = rest,
                             !.sets = [r \in ResultSet |->
                                 Unref(@[r], IF r = t.rs THEN 1 ELSE 0)]]
         IN  IF rest = <<>> THEN PutEvent(w1, "end") ELSE w1

RemoveTasksLeaking(w) ==
    IF w.conn.tasks = <<>> THEN w
    ELSE RemoveTask([w EXCEPT !.conn.tasks = <<Head(@)>>])
RemoveTasks(w) ==
    IF w.conn.tasks = <<>> THEN w
    ELSE PutEvent([w EXCEPT !.conn.tasks = <<>>,
                            !.sets = [r \in ResultSet |->
                                Unref(@[r], Naming(w.conn.tasks, r))]], "end")

\* The comstack is gone, and the server's session and its sets with it.
Hangup(w) ==
    [w EXCEPT !.conn.cs = "none", !.conn.out = NoRequest, !.net.wire = <<>>,
              !.net.inited = FALSE,
              !.net.sets = [n \in Name |-> NoRecord]]

Close(w) == [SetMask(Hangup(w), {}) EXCEPT !.conn.state = "idle"]

\* The task at the head is to run again, on a new connection.
ResumeRunning(w) ==
    InsertTask([w EXCEPT !.conn.reconnect = FALSE], Plain("connect"))
Resume(w) ==
    InsertTask([w EXCEPT !.conn.reconnect = FALSE,
                         !.conn.tasks[1].running = FALSE], Plain("connect"))

\* ZOOM_test_reconnect, once it is known that reconnect_ok is set.
Reconnect(w) ==
    IF w.conn.tasks = <<>> THEN Abort(Close(w))
    ELSE PutEvent(Resume(Close(w)), "connect")

\* The connection breaks: reconnect if the server may merely have been idle.
Broken(w, e) ==
    IF w.conn.reconnect THEN Reconnect(w) ELSE Close(SetError(w, e))

-----------------------------------------------------------------------------
(* Sending.                                                                *)

SendBuf(w, ch) ==
    LET w1 == PutEvent(w, "send_data")
    IN  CASE ch.write = "fail" \/ w.conn.cs = "failed" ->
               IF w.conn.reconnect THEN Returns(Reconnect(w1), "pending")
               ELSE Returns(Close(SetError(w1,
                        IF w.conn.state = "connecting" THEN "connect"
                        ELSE "lost")), "complete")
          [] ch.write = "partial" /\ w.conn.cs # "failed" ->
               Returns(SetMask(w1, {"write", "except"}), "pending")
          [] ch.write = "done" /\ w.conn.cs # "failed" ->
               Returns([SetMask(w1, {"read", "except"}) EXCEPT
                            !.net.wire = Append(@, w.conn.out),
                            !.conn.out = NoRequest], "pending")

Send(w, req, ch) ==
    SendBuf(PutEvent([w EXCEPT !.conn.out = req], "send_apdu"), ch)

SendInit(w, ch) == Send(w, Request("init", NoSet, 0, Unset, 0, 0), ch)

\* The lowest ordinal no result set of this connection has as its name.
FreeNameFirst(w) == 1
FreeName(w) ==
    CHOOSE n \in 1 .. Cardinality(ResultSet) :
        /\ \A r \in ResultSet : w.sets[r].name # n
        /\ \A k \in 1 .. n - 1 : \E r \in ResultSet : w.sets[r].name = k

\* Records are asked for along with the search unless it must be sorted.
Piggyback(s, t) ==
    IF t.start = 0 /\ t.count > 0 /\ ~s.sort
    THEN IF Step > 0 THEN Step ELSE t.count
    ELSE 0

SendSearch(w, ch) ==
    LET t == Head(w.conn.tasks)
        s == w.sets[t.rs]
        name == IF s.name # Unset THEN s.name
                ELSE IF w.conn.named THEN FreeName(w) ELSE Default
    IN  IF ~ch.fit THEN Returns(SetError(w, "query"), "complete")
        ELSE Send([w EXCEPT !.sets[t.rs].name = name],
                  Request("search", t.rs, s.q, name, 0, Piggyback(s, t)), ch)

SendPresent(w, ch) ==
    LET t == Head(w.conn.tasks)
        s == w.sets[t.rs]
        chunk == IF Step > 0 /\ Step < t.count THEN Step ELSE t.count
        num == Smaller(chunk, s.size - t.start)
    IN  IF num <= 0 THEN Abort(w)
        ELSE Send(w, Request("present", t.rs, s.q, s.name, t.start, num), ch)

SendSort(w, r, ch) ==
    LET s == w.sets[r]
        w1 == [w EXCEPT !.sets[r].sort = FALSE]
    IN  CASE w.conn.error # "none" -> Returns(w1, "complete")
          [] w.conn.error = "none" /\ ~s.sort -> Returns(w, "complete")
          [] w.conn.error = "none" /\ s.sort /\ s.name = Unset -> Abort(w)
          [] w.conn.error = "none" /\ s.sort /\ s.name # Unset ->
               Send(w1, Request("sort", r, s.q, s.name, 0, 0), ch)

-----------------------------------------------------------------------------
(* Searching: what a search task still has to ask for.                     *)

\* The range asked for, within what is known of the size.
Clip(s, t) ==
    IF ~s.live THEN t.count
    ELSE IF t.start >= s.size THEN 0 ELSE Smaller(t.count, s.size - t.start)

\* How many records from the start on are in the cache.
Cached(s, t, count) ==
    CHOOSE n \in 0 .. count :
        /\ \A i \in 0 .. n - 1 : /\ t.start + i \in Position
                                 /\ s.cache[t.start + i] # NoRecord
        /\ n = count \/ t.start + n \notin Position
                     \/ s.cache[t.start + n] = NoRecord

Events(kind, n) == [i \in 1 .. n |-> kind]

\* The task moved past what is cached already.
Advance(w) ==
    LET t == Head(w.conn.tasks)
        s == w.sets[t.rs]
        count == Clip(s, t)
        n == Cached(s, t, count)
    IN  [w EXCEPT !.conn.tasks[1] = [t EXCEPT !.start = @ + n, !.count = count - n],
                  !.conn.events = @ \o Events("record", n)]

Z3950Search(w, ch) ==
    IF w.conn.tasks = <<>> THEN Returns(w, "complete")
    ELSE LET t == Head(w.conn.tasks)
             s == w.sets[t.rs]
             w1 == Advance(w)
             t1 == Head(w1.conn.tasks)
         IN  CASE t.which = "sort" -> Returns(w, "complete")
               [] t.which \notin {"sort", "search"} -> Abort(w)
               [] t.which = "search" /\ w.conn.error # "none" ->
                    Returns([w EXCEPT !.conn.tasks[1].count = Clip(s, t)],
                            "complete")
               [] t.which = "search" /\ w.conn.error = "none" ->
                    CASE t1.count = 0 /\ s.live -> Returns(w1, "complete")
                      [] t1.count > 0 /\ s.live -> SendPresent(w1, ch)
                      [] ~s.live -> SendSearch(w1, ch)

DefaultName(w, r) ==
    [w EXCEPT !.sets[r].name = IF @ = Unset THEN Default ELSE @]

SrwSendSearch(w, ch) ==
    IF w.conn.error # "none" \/ Head(w.conn.tasks).which # "search"
    THEN Returns(w, "complete")
    ELSE LET t == Head(w.conn.tasks)
             s == w.sets[t.rs]
             w1 == DefaultName(Advance(w), t.rs)
             t1 == Head(w1.conn.tasks)
             num == IF Step > 0 /\ Step < t1.count THEN Step ELSE t1.count
         IN  CASE t1.count = 0 /\ s.live -> Returns(w1, "complete")
               [] ~(t1.count = 0 /\ s.live) /\ ~ch.fit ->
                    Returns(SetError(w1, "query"), "complete")
               [] ~(t1.count = 0 /\ s.live) /\ ch.fit ->
                    Send(w1, Request("search", t.rs, s.q, Default, t1.start,
                                     num), ch)

-----------------------------------------------------------------------------
(* Running the task at the head of the list.                               *)

Opening(w, cs, mask, state) ==
    [SetMask(w, mask) EXCEPT !.conn.cs = cs, !.conn.state = state]

\* do_connect_host.  Only a local socket connects at once: for TCP the
\* resolver thread has to be waited for.
DoConnect(w, ch) ==
    LET w1 == [Hangup(w) EXCEPT !.conn.proto = w.net.proto]
    IN  CASE ch.connect = "later" ->
               Returns(Opening(w1, "connecting", {"read", "write", "except"},
                               "connecting"), "pending")
          [] ch.connect = "now" ->
               Returns([SendInit(PutEvent([w1 EXCEPT !.conn.cs = "data"],
                                          "connect"), ch)
                          EXCEPT !.conn.state = "established"], "pending")
          [] ch.connect \in {"none", "failed"} ->
               Returns(SetError(Opening(w1, ch.connect, w.conn.mask, "idle"),
                                "connect"), "complete")

Dispatch(w, ch) ==
    LET t == Head(w.conn.tasks)
    IN  CASE t.which = "connect" -> DoConnect(w, ch)
          [] t.which = "search" ->
               IF w.conn.proto = "http" THEN SrwSendSearch(w, ch)
               ELSE Z3950Search(w, ch)
          [] t.which = "sort" ->
               SendSort([w EXCEPT !.sets[t.rs].sort = TRUE], t.rs, ch)
          [] t.which \in {"scan", "package"} ->
               IF t.which = "scan" /\ ~ch.fit
               THEN Returns(SetError(w, "query"), "complete")
               ELSE Send(w, Request(t.which, NoSet, 0, Unset, 0, 0), ch)

ExecTask(w, ch) ==
    IF w.conn.tasks = <<>> THEN w
    ELSE IF w.conn.error # "none" THEN RemoveTasks(w)
    ELSE IF Head(w.conn.tasks).running THEN w
    ELSE LET w1 == [w EXCEPT !.conn.tasks[1].running = TRUE]
             w2 == IF w.conn.cs # "none" \/ Head(w.conn.tasks).which = "connect"
                   THEN Dispatch(w1, ch)
                   ELSE Returns(RemoveTasks(w1), "complete")
         IN  IF w2.ret = "complete" THEN RemoveTask(w2) ELSE w2

-----------------------------------------------------------------------------
(* Z39.50 responses.                                                       *)

Fill(cache, start, n, version) ==
    [p \in Position |-> IF p \in start .. start + n - 1 THEN version
                        ELSE cache[p]]

\* What is left to ask for when n more records came in.
LeftShort(s, t, n) == 0
Left(s, t, n) ==
    LET rest == Smaller(t.count, s.size - t.start)
    IN  IF rest < n THEN 0 ELSE rest - n

\* n records of a version for the task at the head, or a made-up one when
\* a present brought none.
AddRecords(w, n, version, empty) ==
    LET t == Head(w.conn.tasks)
        s == w.sets[t.rs]
    IN  [w EXCEPT
            !.sets[t.rs].cache = IF empty THEN Fill(@, t.start, 1, MadeUp)
                                 ELSE Fill(@, t.start, n, version),
            !.conn.tasks[1] = [t EXCEPT !.start = @ + n,
                                        !.count = IF empty THEN 0 ELSE Left(s, t, n)],
            !.conn.events = @ \o Events("record", IF empty THEN 1 ELSE n)]

\* handle_Z3950_records: records, or a diagnostic.
HandleRecords(w, a, version, present) ==
    IF w.conn.tasks = <<>> \/ Head(w.conn.tasks).which # "search" THEN w
    ELSE IF a.is = "diag" THEN RemoveTasks(SetError(w, "diag"))
    ELSE AddRecords(w, a.n, version, present /\ a.n = 0)

\* The server has told the size of a set.
Found(w, r, hits) ==
    [w EXCEPT !.sets[r] = [@ EXCEPT !.size = hits, !.live = TRUE]]

HandleSearchResponse(w, a, version) ==
    LET t == Head(w.conn.tasks)
        w1 == IF w.sets[t.rs].live THEN w ELSE PutEvent(w, "search")
    IN  IF w.conn.tasks = <<>> \/ t.which # "search" THEN w
        ELSE HandleRecords(Found(w1, t.rs, a.hits), a, version, FALSE)

\* The task goes on with w; it is removed when it has nothing more to send.
FinishAlways(w) == RemoveTask(w)
Finish(w) == IF w.ret = "complete" THEN RemoveTask(w) ELSE w

SortPresent(w, ch) ==
    LET isSearch == w.conn.tasks # <<>> /\ Head(w.conn.tasks).which = "search"
        w1 == IF isSearch THEN SendSort(w, Head(w.conn.tasks).rs, ch)
              ELSE Returns(w, "complete")
    IN  IF w1.ret = "complete" THEN Z3950Search(w1, ch) ELSE w1

HandleInit(w, a, ch) ==
    IF a.is # "ok" THEN SetError(w, IF a.is = "diag" THEN "diag" ELSE "init")
    ELSE LET w1 == [w EXCEPT !.conn.named = @ \/ w.net.named,
                             !.net.inited = TRUE]
         IN  IF w.conn.tasks # <<>> /\ Head(w.conn.tasks).which # "connect"
             THEN Abort(w1)
             ELSE ExecTask(RemoveTask(w1), ch)

\* A response came in: the socket is not waited for until more is sent.
ReceivedListening(w) == w
Received(w) == SetMask(w, {})

\* ZOOM_handle_Z3950_apdu for the response a to the request req.
HandleApdu(w, req, a, ch) ==
    LET w1 == Received(w)
        version == w.net.sets[IF req.name \in Name THEN req.name ELSE Default]
    IN  CASE req.kind = "init" -> HandleInit(w1, a, ch)
          [] req.kind = "search" ->
               LET served == [q |-> req.q, sorted |-> FALSE]
                   w2 == [w1 EXCEPT !.net.sets[req.name] =
                              IF a.is = "ok" THEN served ELSE NoRecord]
               IN  Finish(SortPresent(HandleSearchResponse(w2, a, served), ch))
          [] req.kind = "present" ->
               Finish(Z3950Search(HandleRecords(w1, a, version, TRUE), ch))
          [] req.kind = "sort" ->
               Finish(Z3950Search(
                   IF a.is = "ok"
                   THEN [w1 EXCEPT !.net.sets[req.name].sorted = TRUE]
                   ELSE RemoveTasks(SetError(w1, "diag")), ch))
          [] req.kind = "scan" ->
               RemoveTask(IF a.is = "ok" THEN w1 ELSE SetError(w1, "diag"))
          [] req.kind \notin {"init", "search", "present", "sort", "scan"} ->
               IF w.conn.tasks # <<>> /\ Head(w.conn.tasks).which # "package"
               THEN Abort(w1)
               ELSE RemoveTask(IF a.is = "ok" THEN w1 ELSE SetError(w1, "diag"))

-----------------------------------------------------------------------------
(* SRU responses.                                                          *)

\* n records for the query q; those that are in the cache already stay.
AddSrwRecords(w, n, q) ==
    LET t == Head(w.conn.tasks)
        s == w.sets[t.rs]
        fresh == {p \in t.start .. t.start + n - 1 :
                      p \in Position /\ s.cache[p] = NoRecord}
    IN  [w EXCEPT
            !.sets[t.rs].cache = [p \in Position |-> IF p \in fresh
                THEN [q |-> q, sorted |-> FALSE] ELSE @[p]],
            !.conn.tasks[1] = [t EXCEPT !.start = @ + n,
                                        !.count = IF @ < n THEN 0 ELSE @ - n],
            !.conn.events = @ \o Events("record", n)]

HandleSrw(w, req, a, ch) ==
    LET t == Head(w.conn.tasks)
        w1 == Found(IF w.sets[t.rs].live THEN w ELSE PutEvent(w, "search"),
                    t.rs, IF a.is = "ok" THEN a.hits ELSE 0)
        mine == w.conn.tasks # <<>> /\ t.which = req.kind
    IN  IF ~mine THEN Returns(w, "complete")
        ELSE IF req.kind = "scan"
        THEN Returns(IF a.is = "ok" THEN w ELSE SetError(w, "diag"), "complete")
        ELSE IF a.is = "diag" THEN Returns(SetError(w1, "diag"), "complete")
        ELSE SrwSendSearch(AddSrwRecords(w1, a.n, req.q), ch)

\* The end of handle_http: e is the error it met, if any, complete whether
\* the task at the head is done.
EndHttp(w, e, complete, mustClose) ==
    LET w1 == IF e = "none" THEN w ELSE Close(SetError(w, e))
        w2 == IF complete THEN RemoveTask(w1) ELSE w1
        w3 == Close(w2)
    IN  IF ~mustClose THEN [w2 EXCEPT !.conn.reconnect = TRUE]
        ELSE IF w3.conn.tasks = <<>> THEN w3
        ELSE Resume(w3)

HandleHttp(w, req, a, ch) ==
    LET w1 == [Received(w) EXCEPT !.conn.redirects = 0]
        tooMany == w.conn.redirects >= MaxRedirects
        body == HandleSrw(w1, req, a, ch)
    IN  CASE a.is = "redirect" /\ ~tooMany ->
               DoConnect([w1 EXCEPT !.conn.redirects = w.conn.redirects + 1,
                                    !.conn.location = req], ch)
          [] a.is = "redirect" /\ tooMany ->
               EndHttp(w1, "http", TRUE, a.close)
          [] a.is \in {"http", "decode"} ->
               EndHttp(w1, a.is, TRUE, a.close)
          [] a.is \in {"ok", "diag"} ->
               EndHttp(IF w.conn.redirects > 0 THEN Close(body) ELSE body,
                       "none", body.ret = "complete", a.close)

-----------------------------------------------------------------------------
(* What the comstack may do, and what the server may answer.               *)

Choices == [write : {"done", "partial", "fail"},
            connect : {"later", "now", "none", "failed"}, fit : BOOLEAN]
Choice == {ch \in Choices : "http" = net.proto => ch.connect # "now"}

Answer(is, hits, n) == [is |-> is, hits |-> hits, n |-> n, close |-> FALSE]

Z3950Answers(req) ==
    LET known == req.kind \in {"present", "sort"}
                   => net.sets[req.name] # NoRecord
        good == CASE req.kind = "search" ->
                       {Answer("ok", h, n) : h \in 0 .. MaxHits,
                                             n \in 0 .. req.num}
                  [] req.kind = "present" ->
                       {Answer("ok", 0, n) : n \in 0 .. req.num}
                  [] req.kind \notin {"search", "present"} ->
                       {Answer("ok", 0, 0)}
    IN  (IF req.kind = "init" /\ "explain" \notin Habits THEN {}
         ELSE {Answer("diag", 0, 0)})
          \cup (IF known THEN {a \in good : req.kind = "search" => a.n <= a.hits}
                ELSE {})
          \cup (IF req.kind = "init" THEN {Answer("refused", 0, 0)} ELSE {})

\* A server that counts records beyond the start sends at least one of those
\* asked for, unless it has the habit of withholding them, and it counts the
\* same for the same query each time.
HttpAnswers(req) ==
    LET left(h) == Smaller(req.num, h - req.start)
        good == {a \in {Answer("ok", h, n) : h \in 0 .. MaxHits,
                                             n \in 0 .. MaxHits} :
                   /\ a.n <= (IF left(a.hits) > 0 THEN left(a.hits) ELSE 0)
                   /\ req.kind = "search" /\ sets[req.rs].size > 0
                        => a.hits = sets[req.rs].size
                   /\ left(a.hits) > 0 /\ "withhold" \notin Habits => a.n > 0}
        all == good \cup {Answer(is, 0, 0) : is \in {"diag", "http", "decode"}}
                 \cup (IF "redirect" \in Habits /\ req.kind = "search"
                       THEN {Answer("redirect", 0, 0)} ELSE {})
    IN  {[a EXCEPT !.close = b] : a \in all, b \in BOOLEAN}

-----------------------------------------------------------------------------
(* The steps.                                                              *)

W == [conn |-> conn, sets |-> sets, net |-> net, ret |-> "none"]
Become(w) == conn' = w.conn /\ sets' = w.sets /\ net' = w.net

Init ==
    /\ conn = [proto |-> "z3950", cs |-> "none", error |-> "none",
               mask |-> {}, reconnect |-> FALSE, state |-> "idle",
               tasks |-> <<>>, events |-> <<>>, named |-> FALSE,
               redirects |-> 0, location |-> NoRequest, out |-> NoRequest,
               aborted |-> FALSE]
    /\ sets = [r \in ResultSet |-> FreeSet]
    /\ net \in [proto : Protocols, named : BOOLEAN, wire : {<<>>},
                inited : {FALSE}, sets : {[n \in Name |-> NoRecord]}]
    /\ calls = 0

\* An API call of the application.
Call(op) ==
    /\ op \in Ops /\ ~conn.aborted
    /\ calls < MaxCalls /\ calls' = calls + 1
    /\ Len(conn.tasks) < MaxTasks

\* A careful application gives ZOOM_event the time to drop the tasks of a
\* connection that failed, and does not search without a connection.
MayAdd ==
    /\ conn.tasks = <<>> \/ conn.error = "none" \/ "failed" \in Careless
    /\ \/ conn.cs # "none" \/ conn.proto = "http"
       \/ \E i \in DOMAIN conn.tasks : conn.tasks[i].which = "connect"
       \/ "closed" \in Careless

Connect ==
    /\ Call("connect")
    /\ conn.tasks = <<>> \/ "busy" \in Careless
    /\ conn.cs = "none" \/ conn.error \notin Sticky \/ "refused" \in Careless
    /\ LET w == RemoveTasks(SetError(W, "none"))
       IN  Become(IF conn.cs # "none" THEN [w EXCEPT !.conn.reconnect = TRUE]
                  ELSE AddTask(w, Plain("connect")))

\* What searching, sorting and retrieving do first for SRU.
PrepareHttp(w) ==
    IF w.conn.proto # "http" THEN w
    ELSE IF w.conn.cs = "none" THEN AddTask(w, Plain("connect"))
    ELSE [w EXCEPT !.conn.reconnect = TRUE]

Addref(w, r) == [w EXCEPT !.sets[r].ref = @ + 1]

Search(r, start, count, sort) ==
    /\ Call("search") /\ MayAdd
    /\ sets[r].ref = 0
    /\ LET w == [W EXCEPT !.sets[r] = [FreeSet EXCEPT !.ref = 1, !.app = TRUE,
                                          !.q = calls + 1, !.sort = sort]]
       IN  Become(Addref(AddTask(PrepareHttp(w),
                                 Task("search", r, start, count)), r))

Records(r, start, count) ==
    /\ Call("records") /\ MayAdd
    /\ sets[r].app
    /\ Become(Addref(AddTask(PrepareHttp(W), Task("search", r, start, count)),
                     r))

\* Sorting is for Z39.50, and for a set that is searched for, or has been.
SortKeepsCache(r) ==
    /\ Call("sort") /\ MayAdd
    /\ sets[r].app
    /\ net.proto = "z3950"
    /\ sets[r].live \/ Naming(conn.tasks, r) > 0 \/ "sorted" \in Careless
    /\ Become(Addref(AddTask([W EXCEPT !.sets[r].crossed = Naming(conn.tasks, r) > 0],
                             Task("sort", r, 0, 0)), r))
Sort(r) ==
    /\ Call("sort") /\ MayAdd
    /\ sets[r].app
    /\ net.proto = "z3950"
    /\ sets[r].live \/ Naming(conn.tasks, r) > 0 \/ "sorted" \in Careless
    /\ Become(Addref(AddTask([W EXCEPT !.sets[r].cache = FreeSet.cache,
                                       !.sets[r].crossed = Naming(conn.tasks, r) > 0],
                             Task("sort", r, 0, 0)), r))

Scan == Call("scan") /\ MayAdd /\ Become(AddTask(W, Plain("scan")))

Package ==
    /\ Call("package") /\ MayAdd /\ net.proto = "z3950"
    /\ Become(AddTask(W, Plain("package")))

Destroy(r) ==
    /\ Call("destroy")
    /\ sets[r].app
    /\ Become([W EXCEPT !.sets[r] = Unref([@ EXCEPT !.app = FALSE], 1)])

\* ZOOM_event: an event that is there is taken; else the next task is run;
\* else the socket is waited for.
GetEvent ==
    /\ ~conn.aborted /\ conn.events # <<>>
    /\ Become([W EXCEPT !.conn.events = Tail(@)])
    /\ UNCHANGED calls

Runnable == /\ conn.events = <<>> /\ conn.tasks # <<>>
            /\ conn.error # "none" \/ ~Head(conn.tasks).running

RunTask ==
    /\ ~conn.aborted /\ Runnable
    /\ \E ch \in Choice : Become(ExecTask(W, ch))
    /\ UNCHANGED calls

Waiting == /\ ~conn.aborted /\ conn.events = <<>> /\ ~Runnable
           /\ conn.cs # "none" /\ conn.mask # {}

\* ZOOM_connection_do_io while the comstack is connecting.
Connected ==
    /\ Waiting /\ conn.cs = "connecting"
    /\ LET w == PutEvent([W EXCEPT !.conn.cs = "data"], "connect")
           isConnect == conn.tasks # <<>> /\ Head(conn.tasks).which = "connect"
           w1 == IF isConnect THEN SetMask(RemoveTask(w), {}) ELSE w
       IN  \E ch \in Choice :
             LET w2 == CASE conn.proto = "z3950" -> SendInit(w, ch)
                         [] conn.proto = "http" /\ conn.tasks = <<>> -> Abort(w)
                         [] conn.proto = "http" /\ conn.tasks # <<>>
                              /\ conn.location # NoRequest ->
                              Send([w1 EXCEPT !.conn.location = NoRequest],
                                   conn.location, ch)
                         [] conn.proto = "http" /\ conn.tasks # <<>>
                              /\ conn.location = NoRequest -> ExecTask(w1, ch)
             IN  Become(IF w2.conn.cs # "data" THEN w2
                        ELSE [w2 EXCEPT !.conn.state = "established"])
    /\ UNCHANGED calls

StillConnecting ==
    /\ Waiting /\ conn.cs = "connecting"
    /\ Become(PutEvent(W, "connect"))
    /\ UNCHANGED calls

ConnectFails ==
    /\ Waiting /\ conn.cs = "connecting"
    /\ LET w == Close(SetError(W, "connect"))
       IN  Become(w) \/ Become(PutEvent(w, "connect"))
    /\ UNCHANGED calls

\* do_read of a whole response to the oldest request on the wire.
Answered ==
    /\ Waiting /\ conn.cs = "data" /\ "read" \in conn.mask
    /\ net.wire # <<>>
    /\ LET req == Head(net.wire)
           w == [W EXCEPT !.net.wire = Tail(@),
                          !.conn.events = @ \o <<"recv_data", "recv_apdu">>]
       IN  \E ch \in Choice :
             IF net.proto = "z3950"
             THEN \E a \in Z3950Answers(req) : Become(HandleApdu(w, req, a, ch))
             ELSE \E a \in HttpAnswers(req) : Become(HandleHttp(w, req, a, ch))
    /\ UNCHANGED calls

\* Part of a response came in.
ReadSome ==
    /\ Waiting /\ conn.cs = "data" /\ "read" \in conn.mask
    /\ Become(PutEvent(W, "recv_data"))
    /\ UNCHANGED calls

\* The server closes, is not understood, or sends a Close or unknown APDU.
ReadFails ==
    /\ Waiting /\ conn.cs = "data" /\ "read" \in conn.mask
    /\ LET w == PutEvent(W, "recv_data")
           w1 == PutEvent(w, "recv_apdu")
       IN  \/ Become(Broken(w, "lost"))
           \/ Become(Broken(w1, "decode"))
           \/ net.proto = "z3950" /\ Become(Broken(w1, "lost"))
           \/ net.proto = "z3950" /\ Become(Close(SetError(w1, "decode")))
    /\ UNCHANGED calls

\* More of the request can be written.
WriteMore ==
    /\ Waiting /\ conn.cs = "data" /\ "write" \in conn.mask
    /\ \E ch \in Choice : Become(SendBuf(W, ch))
    /\ UNCHANGED calls

\* An exception condition on the socket.
Exception ==
    /\ Waiting /\ conn.cs = "data"
    /\ Become(Broken(W, "lost"))
    /\ UNCHANGED calls

TimeoutForgotten ==
    /\ Waiting
    /\ Become(PutEvent(Close(W), "timeout"))
    /\ UNCHANGED calls
Timeout ==
    /\ Waiting
    /\ Become(PutEvent(Close(SetError(W, "timeout")), "timeout"))
    /\ UNCHANGED calls

Api == \/ Connect \/ Scan \/ Package
       \/ \E r \in ResultSet : Sort(r) \/ Destroy(r)
       \/ \E r \in ResultSet, start \in 0 .. MaxHits, count \in 0 .. MaxHits :
            Records(r, start, count) \/ Search(r, start, count, FALSE)
       \/ \E r \in ResultSet, count \in 0 .. MaxHits : Search(r, 0, count, TRUE)

Poll == \/ Connected \/ StillConnecting \/ ConnectFails
        \/ Answered \/ ReadSome \/ ReadFails \/ WriteMore \/ Exception \/ Timeout

Next == Api \/ GetEvent \/ RunTask \/ Poll

Spec == Init /\ [][Next]_vars

\* The peer does not dribble for ever: what was begun is completed or fails.
Settled == Connected \/ ConnectFails \/ Answered \/ ReadFails \/ Timeout
FairSpec == Spec /\ WF_vars(GetEvent) /\ WF_vars(RunTask) /\ SF_vars(Settled)
=============================================================================
