----------------------------- MODULE ImageIntake -----------------------------
(***************************************************************************)
(* What a worker does with an event about pictures: it finds or makes the  *)
(* sender's identity (internal/users), and then stores the picture, lets a *)
(* model read it and keeps its slip, or looks up the newest picture that   *)
(* is stored (internal/dispatcher, memory, storage, media).                *)
(***************************************************************************)
EXTENDS Integers, FiniteSets

CONSTANTS
  Senders,       \* LINE users
  NoSender,
  Workers,
  Models,        \* models of the gateway that read pictures
  MaxUsers,      \* bound on the user ids that are drawn
  MaxObjects     \* bound on the objects of a behaviour

ASSUME IntakeAssumption ==
  /\ NoSender \notin Senders
  /\ Models \in Nat
  /\ MaxUsers \in Nat
  /\ MaxObjects \in Nat

VARIABLES
  users,      \* users: the id of each LINE user, a number, or 0 when there is no row
  agents,     \* agents: [owner, ns], the namespace named after a user id
  drawn,      \* ids drawn so far, for rows or in vain
  known,      \* identities handlers were given: [line, id, ns]
  objects,    \* names of the objects that are stored
  images,     \* stored_images: [object, ns, line, at]
  slips,      \* slip_records: [object, ns, status], object the one of their image
  asked,      \* questions about a slip: [object, line]
  shown,      \* pictures that were sent back: [object, line]
  clock,      \* objects so far
  work        \* per worker: what it does, for whom, and what it has got so far

identityVars == <<users, agents, drawn, known>>
pictureVars == <<objects, images, slips, asked, shown, clock>>
intakeVars == <<identityVars, pictureVars, work>>

UserIds == 1 .. MaxUsers
Objects == 1 .. MaxObjects

\* object is 0 until there is one; row tells whether its metadata could be kept.
Idle == [step |-> "idle", kind |-> "none", line |-> NoSender, id |-> 0, ns |-> 0,
         object |-> 0, row |-> FALSE, stage |-> "structured", models |-> 0, amount |-> FALSE]

IntakeInit ==
  /\ users = [l \in Senders |-> 0]
  /\ agents = {}
  /\ drawn = 0
  /\ known = {}
  /\ objects = {}
  /\ images = {}
  /\ slips = {}
  /\ asked = {}
  /\ shown = {}
  /\ clock = 0
  /\ work = [w \in Workers |-> Idle]

Doing(w, step) == work[w].step = step
Goes(w, step) == work' = [work EXCEPT ![w].step = step]

-----------------------------------------------------------------------------
(* ResolveOrCreateLineUser.                                                 *)

Identify(w, id, ns, step) ==
  /\ work' = [work EXCEPT ![w].id = id, ![w].ns = ns, ![w].step = step]
  /\ known' = known \cup {[line |-> work[w].line, id |-> id, ns |-> ns]}

\* The sender's row, joined with an agent of his.
Lookup(w) ==
  LET id == users[work[w].line]
      mine == {a \in agents : a.owner = id} IN
  /\ Doing(w, "lookup")
  /\ IF id # 0 /\ mine # {}
     THEN \E a \in mine : Identify(w, id, a.ns, work[w].kind)
     ELSE Goes(w, "register") /\ UNCHANGED known
  /\ UNCHANGED <<users, agents, drawn, pictureVars>>

\* Others that register the sender wait for the first to commit or to roll back.
Registering == {"agent", "commit"}
MayRegister(w) == \A v \in Workers \ {w} :
                    work[v].step \in Registering => work[v].line # work[w].line

\* INSERT ... ON CONFLICT ("lineUserId") DO UPDATE ... RETURNING id.
UpsertUser(w) ==
  /\ Doing(w, "register")
  /\ MayRegister(w)
  /\ drawn < MaxUsers
  /\ drawn' = drawn + 1
  /\ LET old == users[work[w].line] IN
     work' = [work EXCEPT ![w].step = "agent", ![w].id = IF old = 0 THEN drawn' ELSE old]
  /\ UNCHANGED <<users, agents, known, pictureVars>>

\* Mutant: the namespace is named after the id that was drawn, not after the row's.
UpsertAgentDrawn(w) ==
  /\ Doing(w, "agent")
  /\ work' = [work EXCEPT ![w].step = "commit", ![w].ns = drawn]
  /\ UNCHANGED <<identityVars, pictureVars>>

\* INSERT ... ON CONFLICT (namespace) DO UPDATE, the namespace named after the user.
UpsertAgent(w) ==
  /\ Doing(w, "agent")
  /\ work' = [work EXCEPT ![w].step = "commit", ![w].ns = work[w].id]
  /\ UNCHANGED <<identityVars, pictureVars>>

Registered(w) ==
  /\ users' = [users EXCEPT ![work[w].line] = work[w].id]
  /\ agents' = IF \E a \in agents : a.ns = work[w].ns THEN agents
               ELSE agents \cup {[owner |-> work[w].id, ns |-> work[w].ns]}

Commit(w) ==
  /\ Doing(w, "commit")
  /\ Registered(w)
  /\ Identify(w, work[w].id, work[w].ns, work[w].kind)
  /\ UNCHANGED <<drawn, pictureVars>>

\* A statement is an error; only COMMIT may have done its work all the same.
IdentityFails(w) ==
  /\ work[w].step \in {"lookup", "register"} \cup Registering
  /\ \/ UNCHANGED <<users, agents>>
     \/ Doing(w, "commit") /\ Registered(w)
  /\ Goes(w, "failed")
  /\ UNCHANGED <<drawn, known, pictureVars>>

-----------------------------------------------------------------------------
(* handleImage.                                                             *)

\* LINE has the picture, or a plain answer says that it could not be fetched.
Download(w) ==
  /\ Doing(w, "image")
  /\ \/ Goes(w, "put")
     \/ Goes(w, "answer")
  /\ UNCHANGED <<identityVars, pictureVars>>

\* The object's name is a fresh uuid.  After an error, with the object stored or not,
\* the sender is asked to send the picture again.
Put(w) ==
  /\ Doing(w, "put")
  /\ clock < MaxObjects
  /\ clock' = clock + 1
  /\ \/ /\ objects' = objects \cup {clock'}
        /\ work' = [work EXCEPT ![w].object = clock', ![w].step = "row"]
     \/ /\ objects' \in {objects, objects \cup {clock'}}
        /\ Goes(w, "answer")
  /\ UNCHANGED <<identityVars, images, slips, asked, shown>>

\* createdAt is a time between the upload and the insertion.
Row(w) == [object |-> work[w].object, ns |-> work[w].ns, line |-> work[w].line, at |-> clock]

\* SaveStoredImage; an error, the row inserted or not, leaves img nil.
SaveRow(w) ==
  /\ Doing(w, "row")
  /\ \/ /\ images' = images \cup {Row(w)}
        /\ work' = [work EXCEPT ![w].step = "read", ![w].row = TRUE]
     \/ /\ images' \in {images, images \cup {Row(w)}}
        /\ Goes(w, "read")
  /\ UNCHANGED <<identityVars, objects, slips, asked, shown, clock>>

\* AnalyzeImage.  A usable answer is the verdict: a slip, with an amount or without, or
\* words.  A slip that is read again has its record already, or has none.
Verdicts(w) ==
  IF Doing(w, "reread") THEN {<<"asking", TRUE>>, <<"answer", FALSE>>}
  ELSE {<<"slip", TRUE>>, <<"slip", FALSE>>, <<"answer", FALSE>>}

Verdict(w) ==
  \E v \in Verdicts(w) : work' = [work EXCEPT ![w].step = v[1], ![w].amount = v[2]]

Reads(w, stage) == work[w].step \in {"read", "reread"} /\ work[w].stage = stage
Turns(w, stage) == work' = [work EXCEPT ![w].stage = stage, ![w].models = Models]
NextModel(w) == work[w].models > 0 /\ work' = [work EXCEPT ![w].models = @ - 1]

\* POST /structured.  What it fails to give is asked of the models with the schema in the
\* prompt; what it gives and is unusable, in plain chats.
AskStructured(w) ==
  /\ Reads(w, "structured")
  /\ Verdict(w) \/ Turns(w, "schema") \/ Turns(w, "chat")
  /\ UNCHANGED <<identityVars, pictureVars>>

\* The first JSON a model answers with counts, usable or not.
AskWithSchema(w) ==
  /\ Reads(w, "schema")
  /\ \/ work[w].models > 0 /\ Verdict(w)
     \/ NextModel(w)
     \/ Turns(w, "chat")
  /\ UNCHANGED <<identityVars, pictureVars>>

\* When no model is left, a text that the picture could not be read; AnalyzeImage itself
\* never returns an error.
AskInChat(w) ==
  /\ Reads(w, "chat")
  /\ \/ work[w].models > 0 /\ Verdict(w)
     \/ NextModel(w)
     \/ work[w].models = 0 /\ Goes(w, "answer")
  /\ UNCHANGED <<identityVars, pictureVars>>

Slip(w, status) == [object |-> work[w].object, ns |-> work[w].ns, status |-> status]

\* Mutant: a slip is kept whether its image could be or not.
CreateSlipAnyway(w) ==
  /\ Doing(w, "slip")
  /\ slips' \in {slips, slips \cup {Slip(w, "PENDING_OCR")}}
  /\ \/ slips' # slips /\ Goes(w, "apply")
     \/ Goes(w, "answer")
  /\ UNCHANGED <<identityVars, objects, images, asked, shown, clock>>

\* CreatePendingSlip, only for an image whose row is there; without it, or on an error,
\* the model's words are the answer.
CreateSlip(w) ==
  /\ Doing(w, "slip")
  /\ \/ /\ work[w].row
        /\ slips' = slips \cup {Slip(w, "PENDING_OCR")}
        /\ Goes(w, "apply")
     \/ /\ slips' \in {slips} \cup (IF work[w].row THEN {slips \cup {Slip(w, "PENDING_OCR")}} ELSE {})
        /\ Goes(w, "answer")
  /\ UNCHANGED <<identityVars, objects, images, asked, shown, clock>>

Applied(w) == (slips \ {Slip(w, "PENDING_OCR")}) \cup {Slip(w, "NEEDS_CONFIRMATION")}

\* ApplyVisionToSlip.  With an amount, the question follows, whether the pending action
\* behind it could be saved or not; ChatAccounting has the answers.
ApplyVision(w) ==
  /\ Doing(w, "apply")
  /\ \/ /\ slips' = Applied(w)
        /\ Goes(w, IF work[w].amount THEN "asking" ELSE "answer")
     \/ /\ slips' \in {slips, Applied(w)}
        /\ Goes(w, "answer")
  /\ UNCHANGED <<identityVars, objects, images, asked, shown, clock>>

-----------------------------------------------------------------------------
(* replyLatestImage and analyzeLatestImage.                                 *)

\* GetLatestStoredImage.
Mine(w) == {i \in images : i.ns = work[w].ns}
Newest(S) == {i \in S : \A j \in S : j.at <= i.at}

\* Mutant: the filter of the query is lost.
FindLatestOfAll(w) ==
  /\ work[w].step \in {"recall", "review"}
  /\ \/ \E i \in Newest(images) :
          work' = [work EXCEPT ![w].object = i.object, ![w].row = TRUE,
                               ![w].step = IF Doing(w, "recall") THEN "showing" ELSE "load"]
     \/ Goes(w, "answer")
  /\ UNCHANGED <<identityVars, pictureVars>>

\* None, an error, or no way to sign a link: a plain answer.
FindLatest(w) ==
  /\ work[w].step \in {"recall", "review"}
  /\ \/ \E i \in Newest(Mine(w)) :
          work' = [work EXCEPT ![w].object = i.object, ![w].row = TRUE,
                               ![w].step = IF Doing(w, "recall") THEN "showing" ELSE "load"]
     \/ Goes(w, "answer")
  /\ UNCHANGED <<identityVars, pictureVars>>

\* The object is read from the store, or a plain answer says that it could not be.
Load(w) ==
  /\ Doing(w, "load")
  /\ \/ /\ work[w].object \in objects
        /\ Goes(w, "reread")
     \/ Goes(w, "answer")
  /\ UNCHANGED <<identityVars, pictureVars>>

-----------------------------------------------------------------------------
(* The reply.  Its error is the handler's; the user may have got it.        *)

Sent(w) == [object |-> work[w].object, line |-> work[w].line]

Answer(w) ==
  /\ Doing(w, "answer")
  /\ Goes(w, "done") \/ Goes(w, "failed")
  /\ UNCHANGED <<identityVars, pictureVars>>

Ask(w) ==
  /\ Doing(w, "asking")
  /\ \/ asked' = asked \cup {Sent(w)} /\ (Goes(w, "done") \/ Goes(w, "failed"))
     \/ UNCHANGED asked /\ Goes(w, "failed")
  /\ UNCHANGED <<identityVars, objects, images, slips, shown, clock>>

Show(w) ==
  /\ Doing(w, "showing")
  /\ \/ shown' = shown \cup {Sent(w)} /\ (Goes(w, "done") \/ Goes(w, "failed"))
     \/ UNCHANGED shown /\ Goes(w, "failed")
  /\ UNCHANGED <<identityVars, objects, images, slips, asked, clock>>

\* What media.ServeImage needs to serve a link.
CanBeOpened(n) == n \in objects /\ \E i \in images : i.object = n

-----------------------------------------------------------------------------
WorkStep(w) ==
  \/ Lookup(w) \/ UpsertUser(w) \/ UpsertAgent(w) \/ Commit(w) \/ IdentityFails(w)
  \/ Download(w) \/ Put(w) \/ SaveRow(w)
  \/ AskStructured(w) \/ AskWithSchema(w) \/ AskInChat(w)
  \/ CreateSlip(w) \/ ApplyVision(w)
  \/ FindLatest(w) \/ Load(w)
  \/ Answer(w) \/ Ask(w) \/ Show(w)

-----------------------------------------------------------------------------
(* Properties.                                                              *)

Steps == {"idle", "lookup", "register", "image", "put", "row", "read", "slip", "apply",
          "recall", "review", "load", "reread", "answer", "asking", "showing", "other",
          "done", "failed"} \cup Registering

Work == [step : Steps, kind : {"none", "image", "recall", "review", "other"},
         line : Senders \cup {NoSender}, id : 0 .. MaxUsers, ns : 0 .. MaxUsers,
         object : 0 .. MaxObjects, row : BOOLEAN, stage : {"structured", "schema", "chat"},
         models : 0 .. Models, amount : BOOLEAN]

\* Every variable of the intake has its type.
IntakeTypeOK ==
  /\ users \in [Senders -> 0 .. MaxUsers]
  /\ agents \subseteq [owner : UserIds, ns : UserIds]
  /\ drawn \in 0 .. MaxUsers
  /\ known \subseteq [line : Senders, id : UserIds, ns : UserIds]
  /\ objects \subseteq Objects
  /\ images \subseteq [object : Objects, ns : UserIds, line : Senders, at : 0 .. MaxObjects]
  /\ slips \subseteq [object : Objects, ns : UserIds, status : {"PENDING_OCR", "NEEDS_CONFIRMATION"}]
  /\ asked \subseteq [object : Objects, line : Senders]
  /\ shown \subseteq [object : Objects, line : Senders]
  /\ clock \in 0 .. MaxObjects
  /\ work \in [Workers -> Work]

\* users.go:65: "the unique constraints ... collapse concurrent first messages into the
\* same rows".  All identities one LINE user was ever served under are one, and no two
\* users share one, whichever registrations ran side by side, failed or died.
OneIdentity ==
  \A a, b \in known :
    /\ a.line = b.line => a.id = b.id /\ a.ns = b.ns
    /\ a.ns = b.ns \/ a.id = b.id => a.line = b.line

\* dispatcher.go: every slip on record and every question about one is of a picture
\* whose row and object exist, and every picture sent back can be opened, whichever of
\* the stores failed on the way.
PicturesAreKept ==
  /\ \A s \in slips : CanBeOpened(s.object)
  /\ \A q \in asked \cup shown : CanBeOpened(q.object)

\* dispatcher.go:671: a picture is shown to, and a question about it put to, nobody but
\* the user who sent it.
ShownToItsSender ==
  \A q \in asked \cup shown : \A i \in images : i.object = q.object => i.line = q.line

=============================================================================
