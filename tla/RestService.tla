---------------------------- MODULE RestService ----------------------------
(***************************************************************************)
(* The service of examples/05-rest-api.ts: concurrent requests to create a *)
(* note, each of which brings its proofs, on the Map stores they share.    *)
(*                                                                         *)
(* A request is a call of verifyInvocation with a handler around it: Call  *)
(* are the requests, options holds the invocation each one bears, and a    *)
(* step of the handler between two awaits is a step of its own or goes     *)
(* along with a step of Verify.                                            *)
(***************************************************************************)
EXTENDS Verify, FiniteSets

CONSTANTS
  Service,        \* service.did, the executor
  RouteCommand,   \* the one command the route accepts
  Bodies          \* what a request may be: see BodyType

\* A request whose target is no URL ("unparsable"), one for another route
\* ("elsewhere"), one without a bearer token or proofs header ("bare"), or one
\* with both ("full") and the proofs it lists.
BodyType == [form : {"unparsable", "elsewhere", "bare", "full"}, proofs : Seq(DlgCid)]

ASSUME RestAssumption ==
  /\ ~CustomStores /\ Filings = {<<d, d>> : d \in DlgCid}
  /\ \A o \in Options : o.executor = Service /\ o.now = NoNow /\ o.leeway = 0 /\ o.revoking
  /\ RouteCommand \in Command /\ Bodies \subseteq BodyType

VARIABLES
  body,       \* what each request is
  handler,    \* where each handler is suspended
  inserted,   \* how many of its proofs a handler has inserted
  status,     \* the HTTP status of the response, 0 before there is one
  noteId,     \* the id in a 201 response
  notes       \* the Map of notes: what each one was made from, and by whom

service == <<body, handler, inserted, status, noteId, notes>>
restVars == <<vars, service>>

RestInit ==
  /\ Init
  /\ body \in [Call -> Bodies]
  /\ handler = [c \in Call |-> "idle"] /\ inserted = [c \in Call |-> 0]
  /\ status = [c \in Call |-> 0] /\ noteId = [c \in Call |-> 0]
  /\ notes = [id \in {} |-> 0]

\* A slip: no return after response.end.
AnswerOnly(c, code) ==
  /\ UNCHANGED handler
  /\ status' = [status EXCEPT ![c] = code]

Answer(c, code) ==
  /\ handler' = [handler EXCEPT ![c] = "answered"]
  /\ status' = [status EXCEPT ![c] = code]

Continue(c, where) == handler' = [handler EXCEPT ![c] = where] /\ UNCHANGED status

----------------------------------------------------------------------------
(* The steps of a handler                                                  *)

\* The URL, the route and the headers; nothing shared is touched before the first proof.
Arrive(c) ==
  /\ handler[c] = "idle"
  /\ \/ body[c].form = "unparsable" /\ Answer(c, 500)
     \/ body[c].form = "elsewhere" /\ Answer(c, 404)
     \/ body[c].form = "bare" /\ Answer(c, 403)
     \/ body[c].form = "full" /\ Continue(c, "proofs")
  /\ UNCHANGED <<vars, body, inserted, noteId, notes>>

\* A slip: a proof is filed under the CID at its place in the invocation.
InsertAsNamed(c) ==
  LET n == inserted[c] + 1
      d == body[c].proofs[n]
      cids == Prf[options[c].inv]
  IN
  /\ handler[c] = "proofs" /\ inserted[c] < Len(body[c].proofs)
  /\ InsertByCid(IF n <= Len(cids) THEN cids[n] ELSE d, d)
  /\ inserted' = [inserted EXCEPT ![c] = n]
  /\ UNCHANGED <<body, handler, status, noteId, notes>>

\* Decode the next proof and await insert.
InsertProof(c) ==
  LET d == body[c].proofs[inserted[c] + 1] IN
  /\ handler[c] = "proofs" /\ inserted[c] < Len(body[c].proofs)
  /\ \/ Dlg[d].seal = "undecodable" /\ Answer(c, 500) /\ UNCHANGED <<vars, inserted>>
     \/ /\ Dlg[d].seal # "undecodable" /\ InsertByCid(d, d)
        /\ inserted' = [inserted EXCEPT ![c] = @ + 1] /\ UNCHANGED <<handler, status>>
  /\ UNCHANGED <<body, noteId, notes>>

\* A slip: the route does not look at the command.
DispatchAny(c) ==
  /\ handler[c] = "proofs" /\ inserted[c] = Len(body[c].proofs)
  /\ \/ Inv[options[c].inv].seal = "undecodable" /\ Answer(c, 500) /\ UNCHANGED vars
     \/ Inv[options[c].inv].seal # "undecodable" /\ Begin(c) /\ Continue(c, "verifying")
  /\ UNCHANGED <<body, inserted, noteId, notes>>

\* Decode the invocation, compare its command, and call verifyInvocation.
Dispatch(c) ==
  LET inv == Inv[options[c].inv] IN
  /\ handler[c] = "proofs" /\ inserted[c] = Len(body[c].proofs)
  /\ \/ inv.seal = "undecodable" /\ Answer(c, 500) /\ UNCHANGED vars
     \/ inv.seal # "undecodable" /\ inv.cmd # RouteCommand /\ Answer(c, 403) /\ UNCHANGED vars
     \/ /\ inv.seal # "undecodable" /\ inv.cmd = RouteCommand
        /\ Begin(c) /\ Continue(c, "verifying")
  /\ UNCHANGED <<body, inserted, noteId, notes>>

Verifying(c) == handler[c] = "verifying" /\ Resume(c) /\ UNCHANGED service

\* VerifyError, StoredCheckError and RevokedError; the catch answers 500 to others.
Structured == Outcome \ {"ok", "outOfRange", "lookupError", "claimError"}

CreateNote(c, id) ==
  /\ notes' = [i \in DOMAIN notes \cup {id} |->
                 IF i = id THEN [inv |-> args[c].inv, by |-> c] ELSE notes[i]]
  /\ noteId' = [noteId EXCEPT ![c] = id]

\* Slips: notes are numbered by the invocations verified so far, or a
\* RevokedError is not caught for what it is.
ReplyByCount(c) ==
  /\ handler[c] = "verifying" /\ pc[c] = "done"
  /\ \/ /\ verdict[c] = "ok" /\ Answer(c, 201)
        /\ CreateNote(c, Cardinality({d \in Call : verdict[d] = "ok"}))
     \/ verdict[c] # "ok" /\ Answer(c, 403) /\ UNCHANGED <<notes, noteId>>
  /\ UNCHANGED <<vars, body, inserted>>
ReplyUnlessRevoked(c) ==
  /\ handler[c] = "verifying" /\ pc[c] = "done"
  /\ \/ verdict[c] = "ok" /\ Answer(c, 201) /\ CreateNote(c, Cardinality(DOMAIN notes) + 1)
     \/ /\ verdict[c] \in Structured \ {"revoked"} /\ Answer(c, 403)
        /\ UNCHANGED <<notes, noteId>>
     \/ verdict[c] = "revoked" /\ Answer(c, 500) /\ UNCHANGED <<notes, noteId>>
  /\ UNCHANGED <<vars, body, inserted>>

\* Create the note from what verifyInvocation returned, or catch its error.
Reply(c) ==
  /\ handler[c] = "verifying" /\ pc[c] = "done"
  /\ \/ verdict[c] = "ok" /\ Answer(c, 201) /\ CreateNote(c, Cardinality(DOMAIN notes) + 1)
     \/ verdict[c] \in Structured /\ Answer(c, 403) /\ UNCHANGED <<notes, noteId>>
     \/ /\ verdict[c] \notin Structured \cup {"ok"} /\ Answer(c, 500)
        /\ UNCHANGED <<notes, noteId>>
  /\ UNCHANGED <<vars, body, inserted>>

Handle(c) == InsertProof(c) \/ Dispatch(c) \/ Verifying(c) \/ Reply(c)

----------------------------------------------------------------------------
(* What happens between the steps                                          *)

\* The operator of the service stores a revocation.
Revoke == UNCHANGED service /\ \E d \in DlgCid, r \in RevCid : InsertRevocation(d, r)

RestNext ==
  \/ \E c \in Call : Arrive(c) \/ Handle(c)
  \/ Revoke
  \/ Tick /\ UNCHANGED service

RestSpec == RestInit /\ [][RestNext]_restVars

\* The event loop resumes every handler; the promises of the Map stores settle.
FairRestSpec == RestSpec /\ \A c \in Call : WF_restVars(Handle(c))
----------------------------------------------------------------------------
(* Properties                                                              *)

RestTypeOK ==
  /\ body \in [Call -> Bodies]
  /\ handler \in [Call -> {"idle", "proofs", "verifying", "answered"}]
  /\ inserted \in [Call -> Nat]
  /\ status \in [Call -> {0, 201, 403, 404, 500}] /\ noteId \in [Call -> Nat]
  /\ DOMAIN notes \subseteq Nat
  /\ \A id \in DOMAIN notes : notes[id] \in [inv : InvCid, by : Call]
  /\ \A c \in Call : status[c] # 0 <=> handler[c] = "answered"
  /\ \A c \in Call : pc[c] # "idle" => handler[c] \in {"verifying", "answered"}

\* Whatever other requests put into the shared stores meanwhile, a note is made
\* only for an invocation of the route's command that is signed, addressed to
\* the service, authorised by its own proofs at an instant of the request, and
\* not revoked before it was dispatched.
NotesAreAuthorized ==
  \A id \in DOMAIN notes :
    LET c == notes[id].by
        inv == notes[id].inv
    IN  /\ Inv[inv].cmd = RouteCommand /\ Genuine(inv, Service)
        /\ \E t \in began[c].clock..clock : AuthorizedAt(inv, t, 0)
        /\ ~RevokedBy(inv, began[c].revocations)

\* A command is run once, however often its invocation is sent and however the
\* requests overlap.
OneNotePerInvocation ==
  \A i, j \in DOMAIN notes : notes[i].inv = notes[j].inv => i = j

\* Numbering by size works although requests wait between claim and creation:
\* a note is never overwritten, and the client gets the id of its own.
RepliesNameNotes ==
  /\ \A c \in Call : status[c] = 201 => noteId[c] \in DOMAIN notes /\ notes[noteId[c]].by = c
  /\ \A id \in DOMAIN notes : noteId[notes[id].by] = id

\* The invocation of c was verified by another request first.
Claimed(c) == \E d \in Call \ {c} : args[d] # Idle /\ args[d].inv = options[c].inv /\ verdict[d] = "ok"

\* A 403 to a request with both headers has its reason in the request, the
\* revocations or the clock: proofs that others bring, late, forged or many,
\* take nothing away from one that brings its own.  "Any authorization failure
\* ... is a 403": 500 is left to what does not parse or decode, be it in the
\* request or a revocation that is stored for one of its proofs.
RefusedForCause ==
  \A c \in Call :
    LET inv == options[c].inv
        brought == {body[c].proofs[n] : n \in DOMAIN body[c].proofs}
    IN
    /\ status[c] = 403 /\ body[c].form = "full" =>
         \/ Inv[inv].cmd # RouteCommand
         \/ ~Genuine(inv, Service)
         \/ \E k \in DOMAIN Prf[inv] : Prf[inv][k] \notin brought
         \/ \E t \in began[c].clock..clock : ~AuthorizedAt(inv, t, 0)
         \/ RevokedBy(inv, revocations)
         \/ Claimed(c)
    /\ status[c] = 500 =>
         \/ body[c].form = "unparsable"
         \/ Inv[inv].seal = "undecodable"
         \/ \E d \in brought : Dlg[d].seal = "undecodable"
         \/ Unreadable(inv, revocations)

\* Every request gets its response, whatever arrives meanwhile.
EveryRequestAnswered == \A c \in Call : handler[c] = "proofs" ~> handler[c] = "answered"
=============================================================================
