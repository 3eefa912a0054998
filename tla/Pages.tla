-------------------------------- MODULE Pages --------------------------------
(***************************************************************************)
(* web/static/js/crypto.js: the page that creates a link and the page that *)
(* opens one, against a server that keeps the promise of OneTimeSecret but *)
(* may refuse, fail, or be cut off before or after it has acted.           *)
(*                                                                         *)
(* A submission is one run of the form's submit handler and names the      *)
(* token and the key that it obtains; a visit is one loading of the page   *)
(* behind a link, whose path names the token for good.  Sizes are counted  *)
(* in bytes; encryption is perfect; what only changes a message (an empty  *)
(* form, no key in the URL) is left out.                                   *)
(***************************************************************************)
EXTENDS Integers, FiniteSets

CONSTANTS
  Files, Texts,   \* what can be shared; a text is trimmed and not empty
  Size,           \* bytes of each of them
  HeaderLen,      \* bytes of the envelope's JSON header (type and file name)
  Blocked,        \* files of a blocked type
  MaxBytes,       \* MAX_SECRET_BYTES
  Submissions, Visits,
  None

ASSUME PagesAssumption ==
  /\ MaxBytes \in Nat
  /\ \A c \in Files \cup Texts : Size[c] \in Nat /\ HeaderLen[c] \in Nat
  /\ Files \cap Texts = {}
  /\ Submissions \subseteq Nat
  /\ None \notin Files \cup Texts \cup Submissions

VARIABLES
  canAssign,  \* the browser lets a script assign fileInput.files
  form,       \* the create page: see FormType
  sub,        \* per submission: see SubType
  shared,     \* links that have been displayed: [token, key]
  visit,      \* per visit: see VisitType
  status, holder   \* the server, as in OneTimeSecret

Server == INSTANCE OneTimeSecret WITH Secrets <- Submissions, Readers <- Visits

vars == <<canAssign, form, sub, shared, visit, status, holder>>
server == <<status, holder>>

EmptyForm ==
  [panel |-> "create", mode |-> "text", text |-> None, files |-> None,
   dropped |-> None, display |-> None, loading |-> FALSE]

Done == [pc |-> "done", content |-> None, meant |-> None]

Init ==
  /\ canAssign \in BOOLEAN
  /\ form = EmptyForm
  /\ sub = [s \in Submissions |-> [pc |-> "new", content |-> None, meant |-> None]]
  /\ shared = {}
  /\ visit = [v \in Visits |-> [pc |-> "closed", token |-> None, hash |-> None,
                                key |-> None, link |-> "fresh",
                                panel |-> "reveal"]]
  /\ Server!Init

-----------------------------------------------------------------------------
(* Sizes *)

Packed(c) == 4 + HeaderLen[c] + Size[c]         \* packSecret
Sealed(c) == Packed(c) + 16                     \* AES-GCM adds its tag
Base64Len(n) == 4 * ((n + 2) \div 3)            \* arrayToBase64
Framing == 80                                   \* the rest of the JSON body
BodyLen(c) == Base64Len(Sealed(c)) + Framing

\* mutant: nothing is allowed for header, tag and JSON.
BodyLimitBare == (MaxBytes * 4) \div 3

BodyLimit == (MaxBytes * 4) \div 3 + 16384      \* handler.CreateSecret

\* What the server says of the size: the body's first, then the ciphertext's.
SizeVerdict(c) ==
  IF BodyLen(c) > BodyLimit THEN "400"
  ELSE IF Sealed(c) > MaxBytes THEN "413"
  ELSE "fits"

-----------------------------------------------------------------------------
(* The create page *)

validateFileInput(f) == f \notin Blocked /\ Size[f] <= MaxBytes

\* The form is on the screen.  Bound: it is not filled in when the last
\* submission has begun, since nothing reads it after that.
Editing ==
  /\ form.panel = "create"
  /\ \E s \in Submissions : sub[s].pc = "new"

switchMode(mode) ==
  /\ form.panel = "create" /\ form.mode # mode
  /\ form' = [form EXCEPT !.mode = mode,
                          !.dropped = IF mode = "text" THEN None ELSE @]
  /\ UNCHANGED <<canAssign, sub, shared, visit, server>>

TypeText(t) ==
  /\ Editing /\ form.mode = "text"
  /\ form' = [form EXCEPT !.text = t]
  /\ UNCHANGED <<canAssign, sub, shared, visit, server>>

\* mutant: updateFileName forgets to validate.
AssignedUnchecked(f) == [form EXCEPT !.files = f, !.display = f]

\* fileInput.files is f and updateFileName runs.
Assigned(f) ==
  IF validateFileInput(f)
    THEN [form EXCEPT !.files = f, !.display = f]
    ELSE [form EXCEPT !.files = None, !.display = None, !.dropped = None]

ChooseFile(f) ==
  /\ Editing /\ form.mode = "file"
  /\ form' = Assigned(f)
  /\ UNCHANGED <<canAssign, sub, shared, visit, server>>

\* The chooser is left without a file: the input is emptied, and updateFileName
\* returns at once, so that the name stays on display.
ChooseNothing ==
  /\ Editing /\ form.mode = "file" /\ form.files # None
  /\ form' = [form EXCEPT !.files = None]
  /\ UNCHANGED <<canAssign, sub, shared, visit, server>>

\* mutant: a dropped file is always kept aside.
DropAside(f) ==
  /\ Editing /\ form.mode = "file"
  /\ form' = IF validateFileInput(f)
               THEN [form EXCEPT !.dropped = f, !.display = f] ELSE form
  /\ UNCHANGED <<canAssign, sub, shared, visit, server>>

\* Without assignment the file is kept aside and its name is displayed.
DropFile(f) ==
  /\ Editing /\ form.mode = "file"
  /\ form' = IF ~validateFileInput(f) THEN form
             ELSE IF canAssign THEN Assigned(f)
             ELSE [form EXCEPT !.dropped = f, !.display = f]
  /\ UNCHANGED <<canAssign, sub, shared, visit, server>>

\* What the user sees: the name of a file or the text, the other being hidden.
Displayed == IF form.mode = "file" THEN form.display ELSE form.text

\* fileInput.files[0] || _droppedFile, in file mode
FileToSend == IF form.mode = "text" THEN None
              ELSE IF form.files # None THEN form.files ELSE form.dropped

Begin(s, pc, c) ==
  /\ sub[s].pc = "new" /\ \A r \in Submissions : r < s => sub[r].pc # "new"
  /\ sub' = [sub EXCEPT ![s] = [pc |-> pc, content |-> c, meant |-> Displayed]]

\* The submit handler up to its first await: the file is validated once more.
\* The button is disabled only when a file has been read.
SubmitFile(s) ==
  /\ Editing /\ ~form.loading /\ FileToSend # None
  /\ validateFileInput(FileToSend)
  /\ Begin(s, "reading", FileToSend)
  /\ UNCHANGED <<canAssign, form, shared, visit, server>>

\* Also in file mode, when there is no file: the text is sent although hidden.
SubmitText(s) ==
  /\ Editing /\ ~form.loading /\ FileToSend = None
  /\ form.text # None
  /\ Begin(s, "sealing", form.text)
  /\ form' = [form EXCEPT !.loading = TRUE]
  /\ UNCHANGED <<canAssign, shared, visit, server>>

\* await file.arrayBuffer(), which is outside the try block.
ReadFile(s) ==
  /\ sub[s].pc = "reading"
  /\ \/ /\ sub' = [sub EXCEPT ![s].pc = "sealing"]
        /\ form' = [form EXCEPT !.loading = TRUE]
     \/ sub' = [sub EXCEPT ![s] = Done] /\ UNCHANGED form
  /\ UNCHANGED <<canAssign, shared, visit, server>>

\* A key is made, the envelope packed and sealed, the request sent.
Seal(s) ==
  /\ sub[s].pc = "sealing"
  /\ sub' \in {[sub EXCEPT ![s].pc = "sent"], [sub EXCEPT ![s].pc = "failed"]}
  /\ UNCHANGED <<canAssign, form, shared, visit, server>>

\* The server stores the secret; the answer may get lost.
Store(s) ==
  /\ sub[s].pc = "sent" /\ SizeVerdict(sub[s].content) = "fits"
  /\ \E kind \in Server!Published : Server!Publish(s, kind)
  /\ sub' \in {[sub EXCEPT ![s].pc = "stored"], [sub EXCEPT ![s].pc = "failed"]}
  /\ UNCHANGED <<canAssign, form, shared, visit>>

\* It refuses the size, or anything (429, 500), or cannot be reached; only the
\* message tells the last two apart.
RefuseStore(s) ==
  /\ sub[s].pc = "sent"
  /\ \E answer \in {SizeVerdict(sub[s].content), "failed"} \ {"fits"} :
       sub' = [sub EXCEPT ![s].pc = answer]
  /\ UNCHANGED <<canAssign, form, shared, visit, server>>

Link(s, key) == [token |-> s, key |-> key]

\* The end of the submit handler, finally block included, with the link built
\* from a key.
AnswerWith(s, key) ==
  LET pc == sub[s].pc IN
  /\ pc \in {"stored", "400", "413", "failed"}
  /\ sub' = [sub EXCEPT ![s] = Done]
  /\ form' = [form EXCEPT
       !.panel = IF pc = "stored" THEN "created" ELSE @,
       !.dropped = None, !.loading = FALSE]
  /\ shared' = IF pc = "stored" THEN shared \cup {Link(s, key)} ELSE shared
  /\ UNCHANGED <<canAssign, visit, server>>

\* mutants: the key is kept in a variable of the page; the button is enabled
\* again on success only.
AnswerSharedKey(s) ==
  AnswerWith(s, CHOOSE r \in Submissions :
                  /\ sub[r].pc # "new"
                  /\ \A q \in Submissions : sub[q].pc # "new" => q <= r)

AnswerStuck(s) ==
  /\ sub[s].pc \in {"stored", "400", "413", "failed"}
  /\ sub' = [sub EXCEPT ![s] = Done]
  /\ form' = IF sub[s].pc = "stored"
               THEN [form EXCEPT !.panel = "created", !.loading = FALSE] ELSE form
  /\ shared' = IF sub[s].pc = "stored" THEN shared \cup {Link(s, s)} ELSE shared
  /\ UNCHANGED <<canAssign, visit, server>>

\* The key is a local of the submit handler.
Answer(s) == AnswerWith(s, s)

resetForm ==
  /\ form.panel = "created"
  /\ form' = [EmptyForm EXCEPT !.loading = form.loading]
  /\ UNCHANGED <<canAssign, sub, shared, visit, server>>

-----------------------------------------------------------------------------
(* The reveal page *)

\* Somebody loads a link; its fragment may be right, damaged (the key of another
\* submission stands for any wrong key) or lost.
Open(v) ==
  /\ visit[v].pc = "closed"
  /\ \E l \in shared, hash \in Submissions \cup {None} :
       visit' = [visit EXCEPT ![v].pc = "ready", ![v].token = l.token,
                              ![v].hash = hash]
  /\ UNCHANGED <<canAssign, form, sub, shared, server>>

\* The link is entered again, right or damaged, into the page that it opened:
\* only the fragment changes and nothing is loaded.  (While a request is on its
\* way the page cannot tell; this is as if it were entered after the answer.)
Enter(v) ==
  /\ visit[v].pc = "ready" /\ visit[v].panel = "reveal"
  /\ \E hash \in Submissions :
       visit' = [visit EXCEPT ![v].hash = hash,
                              ![v].link = IF @ = "used" THEN "again" ELSE @]
  /\ UNCHANGED <<canAssign, form, sub, shared, server>>

\* The link of a visit has been used once a request was sent with it.
Used(link) == IF link = "fresh" THEN "used" ELSE link

\* mutant: the fragment stays in the URL.
ClickKeeping(v) ==
  /\ visit[v].pc = "ready" /\ visit[v].panel = "reveal" /\ visit[v].hash # None
  /\ visit' = [visit EXCEPT ![v].pc = "fetching", ![v].key = visit[v].hash,
                            ![v].link = Used(@)]
  /\ UNCHANGED <<canAssign, form, sub, shared, server>>

\* The key that the URL has now moves into a local of revealSecret, and the
\* request is sent; without a key nothing happens.
Click(v) ==
  /\ visit[v].pc = "ready" /\ visit[v].panel = "reveal" /\ visit[v].hash # None
  /\ visit' = [visit EXCEPT ![v].pc = "fetching", ![v].key = visit[v].hash,
                            ![v].hash = None, ![v].link = Used(@)]
  /\ UNCHANGED <<canAssign, form, sub, shared, server>>

\* mutant: the request is a GET, and a cache on its way keeps the answer.
HandCached(v) ==
  /\ visit[v].pc = "fetching"
  /\ \/ Server!Reveal(visit[v].token, v)
     \/ status[visit[v].token] = "revealed" /\ UNCHANGED server
  /\ \E answer \in {"200", "failed"} :
       visit' = [visit EXCEPT ![v].pc = answer]
  /\ UNCHANGED <<canAssign, form, sub, shared>>

\* The server hands the secret out; what arrives is the secret, or a failure (an
\* error status or nothing).
Hand(v) ==
  /\ visit[v].pc = "fetching"
  /\ Server!Reveal(visit[v].token, v)
  /\ \E answer \in {"200", "failed"} :
       visit' = [visit EXCEPT ![v].pc = answer]
  /\ UNCHANGED <<canAssign, form, sub, shared>>

NoSecret(v) ==
  /\ visit[v].pc = "fetching"
  /\ \E answer \in {"404", "failed"} :
       /\ answer = "404" => status[visit[v].token] \notin Server!Published
       /\ visit' = [visit EXCEPT ![v].pc = answer]
  /\ UNCHANGED <<canAssign, form, sub, shared, server>>

\* revealSecret after its await: decryption succeeds with the key that the
\* submission sealed with; every other end leaves the reveal panel.
Respond(v) ==
  LET w == visit[v] IN
  /\ w.pc \in {"200", "404", "failed"}
  /\ visit' = [visit EXCEPT ![v].pc = "ready", ![v].key = None,
       ![v].panel = IF w.pc = "404" THEN "gone"
                    ELSE IF w.pc = "200" /\ w.key = w.token THEN "secret" ELSE @]
  /\ UNCHANGED <<canAssign, form, sub, shared, server>>

Expire ==
  /\ \E s \in Submissions : Server!Expire({s}) /\ status[s] = "timed"
  /\ UNCHANGED <<canAssign, form, sub, shared, visit>>

Next ==
  \/ \E mode \in {"text", "file"} : switchMode(mode)
  \/ \E t \in Texts : TypeText(t)
  \/ \E f \in Files : ChooseFile(f) \/ DropFile(f)
  \/ ChooseNothing
  \/ \E s \in Submissions :
       SubmitFile(s) \/ SubmitText(s) \/ ReadFile(s) \/ Seal(s) \/ Store(s)
         \/ RefuseStore(s) \/ Answer(s)
  \/ resetForm
  \/ \E v \in Visits :
       Open(v) \/ Enter(v) \/ Click(v) \/ Hand(v) \/ NoSecret(v) \/ Respond(v)
  \/ Expire

Spec == Init /\ [][Next]_vars

-----------------------------------------------------------------------------
(* Properties *)

FormType ==
  [panel : {"create", "created"}, mode : {"text", "file"}, text : Texts \cup {None},
   files : Files \cup {None}, dropped : Files \cup {None},
   display : Files \cup {None},
   loading : BOOLEAN]
SubType ==
  [pc : {"new", "reading", "sealing", "sent", "stored", "400", "413", "failed",
         "done"},
   content : Files \cup Texts \cup {None}, meant : Files \cup Texts \cup {None}]
VisitType ==
  [pc : {"closed", "ready", "fetching", "200", "404", "failed"},
   token : Submissions \cup {None}, hash : Submissions \cup {None},
   key : Submissions \cup {None}, link : {"fresh", "used", "again"},
   panel : {"reveal", "gone", "secret"}]

\* Every variable has its type, and no file that the page refuses is held.
TypeOK ==
  /\ canAssign \in BOOLEAN
  /\ form \in FormType
  /\ \A f \in {form.files, form.dropped, form.display} \ {None} :
       validateFileInput(f)
  /\ sub \in [Submissions -> SubType]
  /\ shared \subseteq [token : Submissions, key : Submissions]
  /\ visit \in [Visits -> VisitType]

\* No file leaves the page but the one whose name was on display when the
\* button was pressed, whatever was chosen, dropped, refused and deselected
\* before: where a script may assign fileInput.files (elsewhere it does not hold,
\* and the converse holds nowhere: see the README).
SentFileIsShown ==
  canAssign =>
    \A s \in Submissions : sub[s].content \in Files => sub[s].content = sub[s].meant

\* A link that the page displays opens: its key is the one the secret behind
\* its token was sealed with, although submissions may overlap.
LinkOpens == \A l \in shared : l.key = l.token /\ status[l.token] # "unborn"

\* The secret of v's link has expired, was given to another visit, or was given
\* to v, into which the link was entered again since.
Gone(v) ==
  LET s == visit[v].token IN
  \/ status[s] = "expired"
  \/ \E other \in Visits \ {v} : holder[other] = s
  \/ holder[v] = s /\ visit[v].link = "again"

\* "Already viewed or expired" is true of the secret, and of somebody else's
\* view unless the user gave the page the link twice: after a failure, clicks
\* alone never turn this visit's own request into its gone panel.
GoneIsTrue == \A v \in Visits : visit[v].panel = "gone" => Gone(v)

\* "Single-use": of all the visits of a link, in however many tabs and after
\* whatever failures and clicks, at most one ever shows the secret.
SeenOnce ==
  \A v, w \in Visits :
    /\ visit[v].panel = "secret" /\ visit[w].panel = "secret"
    /\ visit[v].token = visit[w].token
    => v = w

\* A file that the page lets through and the server finds too large is refused
\* with 413, for which the page says so, and not by the limit on the body.
TooLargeIsSaid ==
  \A s \in Submissions : sub[s].pc = "400" => sub[s].content \in Texts

\* The button is disabled only while a submission is on its way: when the
\* last one has ended, however it did, the page can be used again.
ButtonComesBack ==
  form.loading =>
    \E s \in Submissions : sub[s].pc \notin {"new", "reading", "done"}

\* Where a script may assign fileInput.files, nothing is kept aside, and a file
\* that the input holds is the one on display.
AsShown ==
  canAssign => form.dropped = None /\ form.files \in {None, form.display}

\* What a submission carries was let through by the page, and its progress is
\* what the server said.
Carried ==
  \A s \in Submissions :
    /\ sub[s].pc \notin {"new", "done"} =>
         \/ sub[s].content \in Texts
         \/ sub[s].content \in Files /\ validateFileInput(sub[s].content)
    /\ sub[s].pc = "stored" => status[s] # "unborn"
    /\ sub[s].pc = "400" => SizeVerdict(sub[s].content) = "400"

\* A secret that was revealed has a holder, and no other secret has one, nor
\* any secret two.
Held ==
  /\ status \in [Submissions -> Server!Published \cup {"unborn", "revealed", "expired"}]
  /\ holder \in [Visits -> Submissions \cup {None}]
  /\ \A s \in Submissions : status[s] = "revealed" => \E v \in Visits : holder[v] = s
  /\ \A v \in Visits : holder[v] # None => status[holder[v]] = "revealed"
  /\ \A v, w \in Visits : holder[v] = holder[w] /\ holder[v] # None => v = w

\* One link, one request: the key has left the URL before the request is sent,
\* so a visit that was given the secret asks again only with the link entered
\* again; it shows what it was given.
AsksOnce ==
  \A v \in Visits :
    /\ visit[v].pc # "closed" => \E l \in shared : l.token = visit[v].token
    /\ visit[v].pc = "closed" => visit[v].panel = "reveal" /\ visit[v].link = "fresh"
    /\ visit[v].link = "fresh" =>
         holder[v] = None /\ visit[v].pc \in {"closed", "ready"}
    /\ visit[v].link = "used" => visit[v].hash = None
    /\ visit[v].link = "used" /\ visit[v].pc = "fetching" => holder[v] = None
    /\ holder[v] \in {None, visit[v].token}
    /\ visit[v].pc = "200" \/ visit[v].panel = "secret" =>
         holder[v] = visit[v].token
    /\ visit[v].pc = "404" => Gone(v)

\* The inductive invariant of the proofs: overlapping submit handlers and
\* repeated clicks of revealSecret, against a server that may fail.
Inductive ==
  /\ TypeOK /\ AsShown /\ SentFileIsShown /\ Carried /\ Held /\ AsksOnce
  /\ LinkOpens /\ GoneIsTrue /\ ButtonComesBack
=============================================================================
