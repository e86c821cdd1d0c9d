---------------------------- MODULE ChainlinkNode ----------------------------
(***************************************************************************)
(* client/chainlink.go: the HTTP client of a Chainlink node, and main.go,  *)
(* which creates one job spec per file with it.                            *)
(*                                                                         *)
(* The node is external.  It numbers the objects it creates (made) and the *)
(* sessions it issues.  The ID of an object is its number; a bridge goes   *)
(* by the name its creator chose, which may be used again once the bridge  *)
(* is deleted.  A client makes one call at a time, call[p].pc:             *)
(*    "idle" -> "sent" -> "answered" -> "returned"                         *)
(* and the request, the answer or the node may get lost at any moment.     *)
(* Main is a client that follows the program of main.go; the others make   *)
(* any calls, up to MaxCalls.                                              *)
(***************************************************************************)
EXTENDS Naturals, Sequences

CONSTANTS
  Clients, Main,
  Scenarios,   \* [files, kinds]: how many files ../specs has, and the kinds of
               \* objects that each client uses
  Numbers,     \* the IDs that are asked for
  Names,       \* the names of bridges
  MaxCalls,    \* bound: calls of a client other than Main
  MaxSessions  \* bound: sessions the node issues

ASSUME NodeAssumption ==
  /\ Main \notin Clients
  /\ \A s \in Scenarios : s.files \in Nat /\ DOMAIN s.kinds = Clients

VARIABLES
  made,      \* the node: [kind, id, by, nr] of every object it ever created
  store,     \* the numbers of the objects it has
  issued,    \* the number of sessions it issued
  sessions,  \* the sessions that are valid
  http,      \* whether c.Client is set
  cookies,   \* c.Cookies: a session, or 0
  call,      \* the call a client is in
  nr,        \* the number of calls; of Main, of files
  scenario   \* the one that is run

nodeVars == <<made, store, issued, sessions>>
vars == <<nodeVars, http, cookies, call, nr, scenario>>

All == Clients \cup {Main}
Made == 1 .. Len(made)

-----------------------------------------------------------------------------
(***************************************************************************)
(* The methods: what is asked of the node and the status that is expected. *)
(***************************************************************************)
Create(kind) == [do |-> "create", kind |-> kind, id |-> 0, expected |-> 200]
Read(kind, id) == [do |-> "read", kind |-> kind, id |-> id, expected |-> 200]
Delete(kind, id, status) == [do |-> "delete", kind |-> kind, id |-> id, expected |-> status]

CreateJob == Create("job")
ReadJob(id) == Read("job", id)
DeleteJob(id) == Delete("job", id, 204)
CreateSpec == Create("spec")
ReadSpec(id) == Read("spec", id)
DeleteSpec(id) == Delete("spec", id, 204)
CreateBridge(name) == [Create("bridge") EXCEPT !.id = name]
ReadBridge(name) == Read("bridge", name)
DeleteBridge(name) == Delete("bridge", name, 200)
CreateOCRKey == Create("ocr")
ReadOCRKeys == [do |-> "list", kind |-> "ocr", id |-> 0, expected |-> 200]
DeleteOCRKey(id) == Delete("ocr", id, 200)
CreateP2PKey == Create("p2p")
ReadP2PKeys == [do |-> "list", kind |-> "p2p", id |-> 0, expected |-> 200]
DeleteP2PKey(id) == Delete("p2p", id, 200)
ReadETHKeys == [do |-> "list", kind |-> "eth", id |-> 0, expected |-> 200]

\* Any ID or name may be asked for, also one that no object has yet.
Requests ==
  {CreateJob, CreateSpec, CreateOCRKey, ReadOCRKeys, CreateP2PKey, ReadP2PKeys, ReadETHKeys}
  \cup UNION {{ReadJob(id), DeleteJob(id), ReadSpec(id), DeleteSpec(id),
               DeleteOCRKey(id), DeleteP2PKey(id)} : id \in Numbers}
  \cup UNION {{CreateBridge(name), ReadBridge(name), DeleteBridge(name)} : name \in Names}

Login == [do |-> "login", kind |-> "session", id |-> 0, expected |-> 200]

-----------------------------------------------------------------------------
(* The node *)

\* The status of a successful deletion.
Deleted(kind) == IF kind \in {"job", "spec"} THEN 204 ELSE 200

\* `seen' is not part of the answer: it keeps how many objects the node had made.
Answer(p, status, id) ==
  call' = [call EXCEPT ![p] = [pc |-> "answered", req |-> call[p].req, nr |-> call[p].nr,
                               status |-> status, id |-> id, seen |-> Len(made)]]

Objects(req) == {i \in Made : made[i].kind = req.kind /\ made[i].id = req.id}

Has(req) == Objects(req) \cap store # {}

\* A creation may be refused, and is when the name of the bridge is taken.
Handle(p) ==
  LET req == call[p].req
      new == Len(made) + 1
      id  == IF req.kind = "bridge" THEN req.id ELSE new
  IN \/ /\ req.do = "create" /\ ~ Has(req)
        /\ made' = Append(made, [kind |-> req.kind, id |-> id, by |-> p, nr |-> call[p].nr])
        /\ store' = store \cup {new}
        /\ Answer(p, 200, id)
     \/ /\ req.do = "create"
        /\ Answer(p, 422, 0)
        /\ UNCHANGED <<made, store>>
     \/ /\ req.do = "read"
        /\ Answer(p, IF Has(req) THEN 200 ELSE 404, req.id)
        /\ UNCHANGED <<made, store>>
     \/ /\ req.do = "list"
        /\ Answer(p, 200, 0)
        /\ UNCHANGED <<made, store>>
     \/ /\ req.do = "delete"
        /\ Answer(p, IF Has(req) THEN Deleted(req.kind) ELSE 404, req.id)
        /\ store' = store \ Objects(req)
        /\ UNCHANGED made

\* A request is handled when it carries a valid session, and refused otherwise.
NodeHandles(p) ==
  /\ call[p].pc = "sent"
  /\ call[p].req.do # "login"
  /\ \/ call[p].session \in sessions /\ Handle(p)
     \/ /\ call[p].session \notin sessions
        /\ Answer(p, 401, 0)
        /\ UNCHANGED <<made, store>>
  /\ UNCHANGED <<issued, sessions, http, cookies, nr, scenario>>

\* A login is refused, or answered by a session: the ID is the cookie, 0 when the
\* answer has another cookie only.
NodeLogsIn(p) ==
  /\ call[p].pc = "sent"
  /\ call[p].req.do = "login"
  /\ \/ /\ issued < MaxSessions
        /\ issued' = issued + 1
        /\ sessions' = sessions \cup {issued'}
        /\ Answer(p, 200, issued')
     \/ Answer(p, 401, 0) /\ UNCHANGED <<issued, sessions>>
     \/ Answer(p, 200, 0) /\ UNCHANGED <<issued, sessions>>
  /\ UNCHANGED <<made, store, http, cookies, nr, scenario>>

SessionExpires(s) ==
  /\ sessions' = sessions \ {s}
  /\ UNCHANGED <<made, store, issued, http, cookies, call, nr, scenario>>

-----------------------------------------------------------------------------
(* The client *)

CanCall(p) == call[p].pc \in {"idle", "returned"}

\* The request goes out with the cookies of this moment.
Send(p, req, n, session) ==
  call' = [call EXCEPT ![p] = [pc |-> "sent", req |-> req, nr |-> n, session |-> session]]

Return(p, err, id, seen) ==
  call' = [call EXCEPT ![p] = [pc |-> "returned", req |-> call[p].req, nr |-> call[p].nr,
                               err |-> err, id |-> id, seen |-> seen]]

SetClient(p) ==
  /\ CanCall(p)
  /\ http' = [http EXCEPT ![p] = TRUE]
  /\ UNCHANGED <<nodeVars, cookies, call, nr, scenario>>

\* doRaw up to client.Do, which panics when no client was set.
doRaw(p, req, n) ==
  \/ http[p] /\ Send(p, req, n, cookies[p])
  \/ ~ http[p] /\ call' = [call EXCEPT ![p] = [pc |-> "panicked"]]

Do(p, req) ==
  /\ CanCall(p)
  /\ nr[p] < MaxCalls
  /\ nr' = [nr EXCEPT ![p] = @ + 1]
  /\ doRaw(p, req, nr'[p])
  /\ UNCHANGED <<nodeVars, http, cookies, scenario>>

\* SetSessionCookie up to http.Post, which does not use the client's own Client.
SetSessionCookie(p) ==
  /\ CanCall(p)
  /\ nr[p] < MaxCalls
  /\ nr' = [nr EXCEPT ![p] = @ + 1]
  /\ Send(p, Login, nr'[p], 0)
  /\ UNCHANGED <<nodeVars, http, cookies, scenario>>

\* Mutant: a status that is not expected is no error.
Classify_lenient(status, expected) ==
  CASE status = 404 -> "ErrNotFound" [] status = 422 -> "ErrUnprocessableEntity"
    [] OTHER -> "nil"

Classify(status, expected) ==
  CASE status = 404 -> "ErrNotFound"
    [] status = 422 -> "ErrUnprocessableEntity"
    [] status \notin {404, 422, expected} -> "error"
    [] OTHER -> "nil"

\* The methods that decode the body of the answer.
HasObj(req) == \/ req.do = "create" /\ req.kind # "bridge"
               \/ req.do = "read" /\ req.kind # "job"
               \/ req.do = "list"

\* doRaw from the answer on; decoding it may fail.
ReceiveAnswer(p) ==
  /\ call[p].pc = "answered"
  /\ call[p].req.do # "login"
  /\ LET err == Classify(call[p].status, call[p].req.expected)
     IN \/ Return(p, err, call[p].id, call[p].seen)
        \/ err = "nil" /\ HasObj(call[p].req) /\ Return(p, "error", 0, 0)
  /\ UNCHANGED <<nodeVars, http, cookies, nr, scenario>>

\* SetSessionCookie from the answer on.  Cookies without a session replace the
\* ones there are, and are an error afterwards.
ReceiveSession(p) ==
  /\ call[p].pc = "answered"
  /\ call[p].req.do = "login"
  /\ \/ /\ call[p].status # 200
        /\ Return(p, "error", 0, 0)
        /\ UNCHANGED cookies
     \/ /\ call[p].status = 200 /\ call[p].id = 0
        /\ Return(p, "error", 0, 0)
        /\ cookies' \in {cookies, [cookies EXCEPT ![p] = 0]}
     \/ /\ call[p].status = 200 /\ call[p].id # 0
        /\ Return(p, "nil", call[p].id, call[p].seen)
        /\ cookies' = [cookies EXCEPT ![p] = call[p].id]
  /\ UNCHANGED <<nodeVars, http, nr, scenario>>

\* Mutant: the request is sent again.
ConnectionFails_resend(p) ==
  /\ call[p].pc \in {"sent", "answered"}
  /\ Send(p, call[p].req, call[p].nr, cookies[p])
  /\ UNCHANGED <<nodeVars, http, cookies, nr, scenario>>

\* client.Do or ReadAll fails: before or after the node handled the request.
ConnectionFails(p) ==
  /\ call[p].pc \in {"sent", "answered"}
  /\ Return(p, "error", 0, 0)
  /\ UNCHANGED <<nodeVars, http, cookies, nr, scenario>>

-----------------------------------------------------------------------------
(***************************************************************************)
(* main.go: for every file a new client, a login whose error is ignored,   *)
(* and a spec.  What it prints is not modelled.                            *)
(***************************************************************************)
FileDone == \/ call[Main].pc = "idle"
            \/ call[Main].pc = "returned" /\ call[Main].req = CreateSpec

MainLogin ==
  /\ FileDone
  /\ nr[Main] < scenario.files
  /\ nr' = [nr EXCEPT ![Main] = @ + 1]
  /\ http' = [http EXCEPT ![Main] = TRUE]
  /\ cookies' = [cookies EXCEPT ![Main] = 0]
  /\ Send(Main, Login, nr'[Main], 0)
  /\ UNCHANGED <<nodeVars, scenario>>

\* Mutant: a login that failed ends main.
MainCreate_fatal ==
  /\ call[Main].pc = "returned"
  /\ call[Main].req = Login
  /\ \/ call[Main].err = "nil" /\ doRaw(Main, CreateSpec, nr[Main])
     \/ call[Main].err # "nil" /\ call' = [call EXCEPT ![Main] = [pc |-> "exited"]]
  /\ UNCHANGED <<nodeVars, http, cookies, nr, scenario>>

MainCreate ==
  /\ call[Main].pc = "returned"
  /\ call[Main].req = Login
  /\ doRaw(Main, CreateSpec, nr[Main])
  /\ UNCHANGED <<nodeVars, http, cookies, nr, scenario>>

MainStep == MainLogin \/ MainCreate

Ended == FileDone /\ nr[Main] = scenario.files

-----------------------------------------------------------------------------
Init ==
  /\ made = <<>> /\ store = {} /\ issued = 0 /\ sessions = {}
  /\ http = [p \in All |-> FALSE]
  /\ cookies = [p \in All |-> 0]
  /\ call = [p \in All |-> [pc |-> "idle"]]
  /\ nr = [p \in All |-> 0]
  /\ scenario \in Scenarios

\* What a call waits for: the node, or the connection.
Network(p) ==
  \/ NodeHandles(p)
  \/ NodeLogsIn(p)
  \/ ReceiveAnswer(p)
  \/ ReceiveSession(p)
  \/ ConnectionFails(p)

Next ==
  \/ \E p \in Clients :
       \/ ~ http[p] /\ SetClient(p)
       \/ scenario.kinds[p] # {} /\ SetSessionCookie(p)
       \/ \E req \in Requests : req.kind \in scenario.kinds[p] /\ Do(p, req)
  \/ MainStep
  \/ \E p \in All : Network(p)
  \/ \E s \in sessions : SessionExpires(s)

\* main is scheduled.  A call may hang for ever: neither http.Post nor the client
\* that main sets has a timeout.
Spec == Init /\ [][Next]_vars /\ WF_vars(MainStep)

-----------------------------------------------------------------------------
(* Properties *)

\* What a method returns was true of the node when it handled the request, whatever
\* other clients do and whichever sessions expire or are lost meanwhile: a created
\* object is the one this call made; what was deleted or not found is there only if
\* it was made since (a bridge under the same name, say); what was read had been
\* made; and a login left a session of the node (doRaw, SetSessionCookie).
AnswersAreTrue ==
  \A p \in All : call[p].pc = "returned" =>
    LET c == call[p]
    IN /\ c.req.do = "create" /\ c.err = "nil" =>
            \E i \in Made : made[i] = [kind |-> c.req.kind, id |-> c.id,
                                       by |-> p, nr |-> c.nr]
       /\ \/ c.req.do = "delete" /\ c.err \in {"nil", "ErrNotFound"}
          \/ c.req.do = "read" /\ c.err = "ErrNotFound"
          => \A i \in Objects(c.req) \cap store : i > c.seen
       /\ c.req.do = "read" /\ c.err = "nil" => \E i \in Objects(c.req) : i <= c.seen
       /\ c.req = Login /\ c.err = "nil" => cookies[p] \in 1 .. issued

\* A call creates at most one object, also when its answer gets lost; so main
\* creates at most one spec per file (doRaw tries once).
OneEffectPerCall ==
  \A i, j \in Made : made[i].by = made[j].by /\ made[i].nr = made[j].nr => i = j

\* If no call of main hangs for ever, main gets to the end of the files, however
\* many logins and specs fail.
EveryFileIsTried ==
  []<>(call[Main].pc \notin {"sent", "answered"}) => <>Ended
=============================================================================
