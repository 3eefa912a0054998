---------------------------- MODULE PagesProofs ----------------------------
(***************************************************************************)
(* Proofs about Pages, for any files, texts, sizes and limits, and any     *)
(* number of overlapping submissions and of visits.                        *)
(***************************************************************************)
EXTENDS Pages, TLAPS

-----------------------------------------------------------------------------
(* The create page *)

\* The part of the invariant about form and submissions, and the part about
\* links, visits and the server.
FormInv == TypeOK /\ AsShown /\ SentFileIsShown /\ Carried /\ ButtonComesBack
LinkInv == Held /\ AsksOnce /\ LinkOpens /\ GoneIsTrue

LEMMA Parts == Inductive <=> FormInv /\ LinkInv
BY DEF Inductive, FormInv, LinkInv

LEMMA InitInductive == Init => Inductive
<1> SUFFICES ASSUME Init PROVE Inductive
  OBVIOUS
<1>0. form = EmptyForm /\ canAssign \in BOOLEAN /\ shared = {}
  BY DEF Init
<1>1. form \in FormType /\ AsShown /\ ButtonComesBack
  BY <1>0 DEF FormType, EmptyForm, AsShown, ButtonComesBack
<1>2. \A f \in {form.files, form.dropped, form.display} \ {None} : validateFileInput(f)
  BY <1>0 DEF EmptyForm
<1>3. sub \in [Submissions -> SubType]
  BY DEF Init, SubType
<1>4. visit \in [Visits -> VisitType]
  BY DEF Init, VisitType
<1>5. TypeOK
  BY <1>0, <1>1, <1>2, <1>3, <1>4 DEF TypeOK
<1>6. SentFileIsShown /\ Carried
  BY PagesAssumption DEF Init, SentFileIsShown, Carried
<1>7. Held /\ AsksOnce
  BY DEF Init, Held, AsksOnce, Server!Init, Server!Published
<1>8. LinkOpens /\ GoneIsTrue
  BY DEF Init, LinkOpens, GoneIsTrue
<1> QED
  BY <1>1, <1>5, <1>6, <1>7, <1>8 DEF Inductive

\* Editing: modes, typing, choosing, dropping, and the reset.
LEMMA EditStep ==
  ASSUME FormInv, UNCHANGED <<canAssign, sub, shared, visit, server>>,
         \/ \E mode \in {"text", "file"} : switchMode(mode)
         \/ \E t \in Texts : TypeText(t)
         \/ \E f \in Files : ChooseFile(f) \/ DropFile(f)
         \/ ChooseNothing \/ resetForm
  PROVE  FormInv'
<1> USE DEF server
<1>0. form \in FormType /\ canAssign \in BOOLEAN
  BY DEF FormInv, TypeOK
<1>1. form' \in FormType /\ form'.loading = form.loading
  <2>1. ASSUME NEW f \in Files
        PROVE  Assigned(f) \in FormType /\ Assigned(f).loading = form.loading
    BY <1>0 DEF FormType, Assigned
  <2>2. CASE \E mode \in {"text", "file"} : switchMode(mode)
    BY <1>0, <2>2 DEF switchMode, FormType
  <2>3. CASE \E t \in Texts : TypeText(t)
    BY <1>0, <2>3 DEF TypeText, FormType
  <2>4. ASSUME NEW f \in Files, ChooseFile(f) \/ DropFile(f)
        PROVE  form' \in FormType /\ form'.loading = form.loading
    BY <1>0, <2>1, <2>4 DEF ChooseFile, DropFile, FormType
  <2>5. CASE resetForm
    BY <1>0, <2>5 DEF resetForm, EmptyForm, FormType
  <2>6. CASE ChooseNothing
    BY <1>0, <2>6 DEF ChooseNothing, FormType
  <2> QED
    BY <2>2, <2>3, <2>4, <2>5, <2>6
<1>2. \A f \in {form'.files, form'.dropped, form'.display} \ {None} : validateFileInput(f)
  <2>1. \A f \in {form.files, form.dropped, form.display} \ {None} : validateFileInput(f)
    BY DEF FormInv, TypeOK
  <2>2. CASE \E mode \in {"text", "file"} : switchMode(mode)
    BY <1>0, <2>1, <2>2 DEF switchMode, FormType
  <2>3. CASE \E t \in Texts : TypeText(t)
    BY <1>0, <2>1, <2>3 DEF TypeText, FormType
  <2>4. ASSUME NEW f \in Files, ChooseFile(f) \/ DropFile(f)
        PROVE \A g \in {form'.files, form'.dropped, form'.display} \ {None} :
                validateFileInput(g)
    <3>1. CASE form' = form
      BY <2>1, <3>1
    <3>2. CASE form' = Assigned(f)
      <4>1. CASE validateFileInput(f)
        <5>1. form'.files = f /\ form'.display = f /\ form'.dropped = form.dropped
          BY <1>0, <3>2, <4>1 DEF Assigned, FormType
        <5> QED
          BY <2>1, <4>1, <5>1
      <4>2. CASE ~validateFileInput(f)
        BY <1>0, <3>2, <4>2 DEF Assigned, FormType
      <4> QED
        BY <4>1, <4>2
    <3>3. CASE validateFileInput(f) /\ form' = [form EXCEPT !.dropped = f, !.display = f]
      <4>1. form'.dropped = f /\ form'.display = f /\ form'.files = form.files
        BY <1>0, <3>3 DEF FormType
      <4> QED
        BY <2>1, <3>3, <4>1
    <3> QED
      BY <2>4, <3>1, <3>2, <3>3 DEF ChooseFile, DropFile
  <2>5. CASE resetForm
    BY <2>5 DEF resetForm, EmptyForm
  <2>6. CASE ChooseNothing
    <3>1. form'.files = None /\ form'.dropped = form.dropped /\ form'.display = form.display
      BY <1>0, <2>6 DEF ChooseNothing, FormType
    <3> QED
      BY <2>1, <3>1
  <2> QED
    BY <2>2, <2>3, <2>4, <2>5, <2>6
<1>3. AsShown'
  <2>1. AsShown
    BY DEF FormInv
  <2>2. CASE \E mode \in {"text", "file"} : switchMode(mode)
    BY <1>0, <2>1, <2>2 DEF switchMode, FormType, AsShown
  <2>3. CASE \E t \in Texts : TypeText(t)
    BY <1>0, <2>1, <2>3 DEF TypeText, FormType, AsShown
  <2>4. ASSUME NEW f \in Files, ChooseFile(f) \/ DropFile(f) PROVE AsShown'
    BY <1>0, <2>1, <2>4 DEF ChooseFile, DropFile, Assigned, FormType, AsShown
  <2>5. CASE resetForm
    BY <2>5 DEF resetForm, EmptyForm, AsShown
  <2>6. CASE ChooseNothing
    BY <1>0, <2>1, <2>6 DEF ChooseNothing, FormType, AsShown
  <2> QED
    BY <2>2, <2>3, <2>4, <2>5, <2>6
<1>4. TypeOK'
  BY <1>1, <1>2 DEF FormInv, TypeOK
<1>5. SentFileIsShown' /\ Carried' /\ ButtonComesBack'
  BY <1>1 DEF FormInv, SentFileIsShown, Carried, ButtonComesBack
<1> QED
  BY <1>3, <1>4, <1>5 DEF FormInv

\* A step that replaces one submission and at most enables or disables the
\* button, ends the page's turn or forgets what was dropped.
LEMMA SubmissionStep ==
  ASSUME FormInv, NEW s \in Submissions, NEW w \in SubType,
         sub' = [sub EXCEPT ![s] = w],
         UNCHANGED <<canAssign, visit>>,
         form' \in FormType,
         form'.files = form.files, form'.display = form.display,
         form'.dropped \in {form.dropped, None},
         shared' \subseteq [token : Submissions, key : Submissions],
         \A r \in Submissions : status[r] # "unborn" => status'[r] # "unborn",
         canAssign /\ w.content \in Files => w.content = w.meant,
         w.pc \notin {"new", "done"} =>
           \/ w.content \in Texts
           \/ w.content \in Files /\ validateFileInput(w.content),
         w.pc = "stored" => status'[s] # "unborn",
         w.pc = "400" => SizeVerdict(w.content) = "400",
         \/ ~form'.loading
         \/ w.pc \notin {"new", "reading", "done"}
         \/ form'.loading = form.loading /\ sub[s].pc \in {"new", "reading", "done"}
  PROVE  FormInv'
<1>0. sub \in [Submissions -> SubType] /\ form \in FormType
  BY DEF FormInv, TypeOK
<1>1. sub'[s] = w /\ \A r \in Submissions \ {s} : sub'[r] = sub[r]
  BY <1>0
<1>2. TypeOK'
  <2>1. \A f \in {form'.files, form'.dropped, form'.display} \ {None} : validateFileInput(f)
    BY DEF FormInv, TypeOK
  <2>2. sub' \in [Submissions -> SubType]
    BY <1>0
  <2> QED
    BY <2>1, <2>2 DEF FormInv, TypeOK
<1>3. AsShown'
  BY DEF FormInv, AsShown
<1>4. SentFileIsShown'
  BY <1>1 DEF FormInv, SentFileIsShown
<1>5. Carried'
  BY <1>1 DEF FormInv, Carried
<1>6. ButtonComesBack'
  BY <1>1 DEF FormInv, ButtonComesBack
<1> QED
  BY <1>2, <1>3, <1>4, <1>5, <1>6 DEF FormInv

\* The submit handler up to its first await.
LEMMA SubmitStep ==
  ASSUME FormInv, NEW s \in Submissions, SubmitFile(s) \/ SubmitText(s)
  PROVE  FormInv'
<1> DEFINE c == IF FileToSend # None THEN FileToSend ELSE form.text
           pc == IF FileToSend # None THEN "reading" ELSE "sealing"
           w == [pc |-> pc, content |-> c, meant |-> Displayed]
<1>0. form \in FormType /\ canAssign \in BOOLEAN
  BY DEF FormInv, TypeOK
<1>1. /\ sub' = [sub EXCEPT ![s] = w] /\ sub[s].pc = "new"
      /\ UNCHANGED <<canAssign, visit, shared, status, holder>>
      /\ c # None
  BY DEF SubmitFile, SubmitText, Begin, server
<1>2. \/ form' = form /\ pc = "reading"
      \/ form' = [form EXCEPT !.loading = TRUE] /\ pc = "sealing"
  BY DEF SubmitFile, SubmitText
<1>3. \/ c \in Texts
      \/ c \in Files /\ validateFileInput(c)
  <2>1. FileToSend \in {None, form.files, form.dropped}
    BY DEF FileToSend
  <2>2. FileToSend # None => FileToSend \in Files /\ validateFileInput(FileToSend)
    BY <1>0, <2>1 DEF FormInv, TypeOK, FormType
  <2> QED
    BY <1>0, <1>1, <2>2 DEF FormType
<1>4. Displayed \in Files \cup Texts \cup {None}
  BY <1>0 DEF Displayed, FormType
<1>5. canAssign /\ c \in Files => c = Displayed
  <2> SUFFICES ASSUME canAssign, c \in Files PROVE c = Displayed
    OBVIOUS
  <2>1. /\ form.dropped = None /\ form.files \in {None, form.display}
        /\ form.mode \in {"text", "file"}
    BY <1>0 DEF FormInv, AsShown, FormType
  <2>2. FileToSend # None
    BY <1>0, <1>1, PagesAssumption DEF FormType
  <2> QED
    BY <2>1, <2>2 DEF FileToSend, Displayed
<1>6. w \in SubType
  BY <1>3, <1>4 DEF SubType
<1>7. /\ form' \in FormType
      /\ form'.files = form.files /\ form'.display = form.display
      /\ form'.dropped = form.dropped
      /\ form'.loading = form.loading \/ pc = "sealing"
  BY <1>0, <1>2 DEF FormType
<1>8. pc \in {"reading", "sealing"}
  OBVIOUS
<1>9. shared \subseteq [token : Submissions, key : Submissions]
  BY DEF FormInv, TypeOK
<1>10. /\ w.pc = pc /\ w.content = c /\ w.meant = Displayed
  OBVIOUS
<1> HIDE DEF w, pc, c
<1> QED
  BY <1>1, <1>3, <1>5, <1>6, <1>7, <1>8, <1>9, <1>10, SubmissionStep

\* It goes on: the file is read, the envelope sealed, the request answered.
LEMMA ProgressStep ==
  ASSUME FormInv, Held, NEW s \in Submissions,
         ReadFile(s) \/ Seal(s) \/ Store(s) \/ RefuseStore(s) \/ Answer(s)
  PROVE  FormInv'
<1>0. /\ form \in FormType /\ sub[s] \in SubType /\ sub \in [Submissions -> SubType]
      /\ shared \subseteq [token : Submissions, key : Submissions]
  BY DEF FormInv, TypeOK
<1>1. /\ canAssign /\ sub[s].content \in Files => sub[s].content = sub[s].meant
      /\ sub[s].pc \notin {"new", "done"} =>
           \/ sub[s].content \in Texts
           \/ sub[s].content \in Files /\ validateFileInput(sub[s].content)
  BY DEF FormInv, SentFileIsShown, Carried
<1>2. ASSUME NEW pc \in {"sealing", "sent", "stored", "400", "413", "failed"},
             sub[s].pc \notin {"new", "done"},
             sub' = [sub EXCEPT ![s].pc = pc],
             UNCHANGED <<canAssign, visit, shared>>,
             \A r \in Submissions : status[r] # "unborn" => status'[r] # "unborn",
             pc = "stored" => status'[s] # "unborn",
             pc = "400" => SizeVerdict(sub[s].content) = "400",
             form' = form \/ form' = [form EXCEPT !.loading = TRUE]
      PROVE  FormInv'
  <2> DEFINE w == [sub[s] EXCEPT !.pc = pc]
  <2>1. /\ w \in SubType /\ w.pc = pc /\ w.content = sub[s].content
        /\ w.meant = sub[s].meant
    BY <1>0 DEF SubType
  <2>2. sub' = [sub EXCEPT ![s] = w]
    BY <1>0, <1>2
  <2>3. /\ form' \in FormType
        /\ form'.files = form.files /\ form'.display = form.display
        /\ form'.dropped = form.dropped
    BY <1>0, <1>2 DEF FormType
  <2>4. w.pc \notin {"new", "reading", "done"}
    BY <2>1
  <2>5. shared' \subseteq [token : Submissions, key : Submissions]
    BY <1>0, <1>2
  <2>6. \/ w.content \in Texts
        \/ w.content \in Files /\ validateFileInput(w.content)
    BY <1>1, <1>2, <2>1
  <2>7. /\ canAssign /\ w.content \in Files => w.content = w.meant
        /\ w.pc = "stored" => status'[s] # "unborn"
        /\ w.pc = "400" => SizeVerdict(w.content) = "400"
    BY <1>1, <1>2, <2>1
  <2> HIDE DEF w
  <2> QED
    BY <1>2, <2>1, <2>2, <2>3, <2>4, <2>5, <2>6, <2>7, SubmissionStep
<1>3. ASSUME sub' = [sub EXCEPT ![s] = Done], UNCHANGED <<canAssign, visit, status>>,
             shared' \subseteq [token : Submissions, key : Submissions],
             \/ form' = form /\ sub[s].pc = "reading"
             \/ \E p \in {"create", "created"} :
                  form' = [form EXCEPT !.panel = p, !.dropped = None, !.loading = FALSE]
      PROVE  FormInv'
  <2>1. Done \in SubType /\ Done.pc = "done" /\ Done.content = Done.meant
    BY DEF Done, SubType
  <2>2. /\ form' \in FormType
        /\ form'.files = form.files /\ form'.display = form.display
        /\ form'.dropped \in {form.dropped, None}
        /\ ~form'.loading \/ (form'.loading = form.loading /\ sub[s].pc = "reading")
    BY <1>0, <1>3 DEF FormType
  <2> QED
    BY <1>3, <2>1, <2>2, SubmissionStep
<1>4. CASE ReadFile(s)
  BY <1>0, <1>2, <1>3, <1>4 DEF ReadFile, server
<1>5. CASE Seal(s)
  BY <1>2, <1>5 DEF Seal, server
<1>6. CASE Store(s)
  <2>1. PICK kind \in Server!Published : Server!Publish(s, kind)
    BY <1>6 DEF Store
  <2>2. \A r \in Submissions : status[r] # "unborn" => status'[r] # "unborn"
    BY <2>1 DEF Server!Publish, Server!Published, Held
  <2>3. status'[s] # "unborn"
    BY <2>1 DEF Server!Publish, Server!Published, Held
  <2>4. PICK pc \in {"stored", "failed"} : sub' = [sub EXCEPT ![s].pc = pc]
    BY <1>6 DEF Store
  <2> QED
    BY <1>2, <1>6, <2>2, <2>3, <2>4 DEF Store
<1>7. CASE RefuseStore(s)
  <2>1. PICK answer \in {SizeVerdict(sub[s].content), "failed"} \ {"fits"} :
               sub' = [sub EXCEPT ![s].pc = answer]
    BY <1>7 DEF RefuseStore
  <2>2. SizeVerdict(sub[s].content) \in {"400", "413", "fits"}
    BY DEF SizeVerdict
  <2> QED
    BY <1>2, <1>7, <2>1, <2>2 DEF RefuseStore, server
<1>8. CASE Answer(s)
  <2>1. Link(s, s) \in [token : Submissions, key : Submissions]
    BY DEF Link
  <2>2. shared' \subseteq [token : Submissions, key : Submissions]
    BY <1>0, <1>8, <2>1 DEF Answer, AnswerWith
  <2>3. \E p \in {"create", "created"} :
          form' = [form EXCEPT !.panel = p, !.dropped = None, !.loading = FALSE]
    BY <1>0, <1>8 DEF Answer, AnswerWith, FormType
  <2> QED
    BY <1>3, <1>8, <2>2, <2>3 DEF Answer, AnswerWith, server
<1> QED
  BY <1>4, <1>5, <1>6, <1>7, <1>8

-----------------------------------------------------------------------------
(* Links, visits and the server *)

\* A step of visits, links and server leaves form and submissions their part.
LEMMA VisitsLeaveForm ==
  ASSUME FormInv, UNCHANGED <<canAssign, form, sub>>,
         visit' \in [Visits -> VisitType], shared' = shared,
         \A r \in Submissions : status[r] # "unborn" => status'[r] # "unborn"
  PROVE  FormInv'
BY DEF FormInv, TypeOK, AsShown, SentFileIsShown, Carried, ButtonComesBack

\* What has been given away stays away.
LEMMA GoneStays ==
  ASSUME NEW v \in Visits, Gone(v),
         visit'[v].token = visit[v].token, visit[v].token \in Submissions,
         visit[v].link = "again" => visit'[v].link = "again",
         \A s \in Submissions : status[s] = "expired" => status'[s] = "expired",
         \A x \in Visits : holder[x] \in Submissions => holder'[x] = holder[x]
  PROVE  Gone(v)'
BY DEF Gone

\* Secrets are published, handed out and expire; nothing is undone.
LEMMA ServerSteps ==
  ASSUME Held,
         \/ \E s \in Submissions, kind \in Server!Published : Server!Publish(s, kind)
         \/ \E s \in Submissions, v \in Visits : Server!Reveal(s, v)
         \/ \E s \in Submissions : Server!Expire({s})
         \/ UNCHANGED <<status, holder>>
  PROVE  /\ Held'
         /\ \A s \in Submissions : /\ status[s] # "unborn" => status'[s] # "unborn"
                                   /\ status[s] = "expired" => status'[s] = "expired"
         /\ \A x \in Visits : holder[x] \in Submissions => holder'[x] = holder[x]
<1> USE DEF Server!Published
<1>0. None \notin Submissions
  BY PagesAssumption
<1>1. ASSUME NEW s \in Submissions, NEW kind \in Server!Published, Server!Publish(s, kind)
      PROVE  /\ Held'
             /\ \A r \in Submissions : /\ status[r] # "unborn" => status'[r] # "unborn"
                                       /\ status[r] = "expired" => status'[r] = "expired"
             /\ \A x \in Visits : holder[x] \in Submissions => holder'[x] = holder[x]
  BY <1>1 DEF Server!Publish, Held
<1>2. ASSUME NEW s \in Submissions, NEW v \in Visits, Server!Reveal(s, v)
      PROVE  /\ Held'
             /\ \A r \in Submissions : /\ status[r] # "unborn" => status'[r] # "unborn"
                                       /\ status[r] = "expired" => status'[r] = "expired"
             /\ \A x \in Visits : holder[x] \in Submissions => holder'[x] = holder[x]
  <2>1. /\ status' = [status EXCEPT ![s] = "revealed"]
        /\ holder' = [holder EXCEPT ![v] = s]
        /\ holder[v] = None /\ status[s] \in Server!Published
    BY <1>2 DEF Server!Reveal
  <2>2. \A x \in Visits : holder[x] \in Submissions => x # v /\ holder'[x] = holder[x]
    BY <1>0, <2>1 DEF Held
  <2>3. holder'[v] = s
    BY <2>1 DEF Held
  <2>4. ASSUME NEW r \in Submissions, status'[r] = "revealed"
        PROVE  \E x \in Visits : holder'[x] = r
    <3>1. CASE r = s
      BY <2>3, <3>1
    <3>2. CASE r # s
      BY <2>1, <2>2, <2>4, <3>2 DEF Held
    <3> QED
      BY <3>1, <3>2
  <2> QED
    BY <2>1, <2>2, <2>4 DEF Held
<1>3. ASSUME NEW s \in Submissions, Server!Expire({s})
      PROVE  /\ Held'
             /\ \A r \in Submissions : /\ status[r] # "unborn" => status'[r] # "unborn"
                                       /\ status[r] = "expired" => status'[r] = "expired"
             /\ \A x \in Visits : holder[x] \in Submissions => holder'[x] = holder[x]
  BY <1>3 DEF Server!Expire, Held
<1>4. CASE UNCHANGED <<status, holder>>
  BY <1>4 DEF Held
<1> QED
  BY <1>1, <1>2, <1>3, <1>4

\* Steps that leave the visits alone: publishing, showing a link, expiring.
LEMMA LinksGrow ==
  ASSUME Inductive, visit' = visit, holder' = holder, Held', shared \subseteq shared',
         \A s \in Submissions : /\ status[s] # "unborn" => status'[s] # "unborn"
                                /\ status[s] = "expired" => status'[s] = "expired",
         \A l \in shared' \ shared : l.key = l.token /\ status'[l.token] # "unborn"
  PROVE  LinkInv'
<1>1. \A v \in Visits : visit[v].pc # "closed" => visit[v].token \in Submissions
  BY DEF Inductive, AsksOnce, TypeOK
<1>2. ASSUME NEW v \in Visits, visit[v].pc # "closed", Gone(v) PROVE Gone(v)'
  BY <1>1, <1>2, GoneStays
<1>3. AsksOnce'
  BY <1>2 DEF Inductive, AsksOnce
<1>4. LinkOpens'
  BY DEF Inductive, LinkOpens, TypeOK
<1>5. GoneIsTrue'
  BY <1>2 DEF Inductive, GoneIsTrue, AsksOnce
<1> QED
  BY <1>3, <1>4, <1>5 DEF LinkInv

\* A step of one visit.
LEMMA OneVisitStep ==
  ASSUME Inductive, NEW v \in Visits, NEW w \in VisitType,
         visit' = [visit EXCEPT ![v] = w],
         UNCHANGED <<canAssign, form, sub, shared>>,
         Held',
         \A s \in Submissions : /\ status[s] # "unborn" => status'[s] # "unborn"
                                /\ status[s] = "expired" => status'[s] = "expired",
         \A x \in Visits : holder[x] \in Submissions => holder'[x] = holder[x],
         \A x \in Visits \ {v} : holder'[x] = holder[x],
         w.pc # "closed", \E l \in shared : l.token = w.token,
         w.link = "fresh" => holder'[v] = None /\ w.pc = "ready",
         w.link = "used" => w.hash = None,
         w.link = "used" /\ w.pc = "fetching" => holder'[v] = None,
         holder'[v] \in {None, w.token},
         w.pc = "200" \/ w.panel = "secret" => holder'[v] = w.token,
         w.pc = "404" \/ w.panel = "gone" => Gone(v)'
  PROVE  Inductive'
<1>0. visit \in [Visits -> VisitType] /\ visit'[v] = w
      /\ \A x \in Visits \ {v} : visit'[x] = visit[x]
  BY DEF Inductive, TypeOK
<1>1. FormInv'
  <2>1. visit' \in [Visits -> VisitType]
    BY <1>0
  <2> QED
    BY <2>1, Parts, VisitsLeaveForm
<1>2. \A x \in Visits : visit[x].pc # "closed" => visit[x].token \in Submissions
  BY DEF Inductive, AsksOnce, TypeOK
<1>3. ASSUME NEW x \in Visits \ {v}, visit[x].pc # "closed", Gone(x) PROVE Gone(x)'
  BY <1>0, <1>2, <1>3, GoneStays
<1>4. AsksOnce'
  BY <1>0, <1>3 DEF Inductive, AsksOnce
<1>5. LinkOpens'
  BY DEF Inductive, LinkOpens, TypeOK
<1>6. GoneIsTrue'
  BY <1>0, <1>3 DEF Inductive, GoneIsTrue, AsksOnce
<1> QED
  BY <1>1, <1>4, <1>5, <1>6 DEF Inductive, FormInv

\* revealSecret and the server's answer, one action at a time.
LEMMA VisitStep ==
  ASSUME Inductive, NEW v \in Visits,
         Open(v) \/ Enter(v) \/ Click(v) \/ Hand(v) \/ NoSecret(v) \/ Respond(v)
  PROVE  Inductive'
<1> USE DEF server
<1>0. /\ visit \in [Visits -> VisitType] /\ visit[v] \in VisitType
      /\ shared \subseteq [token : Submissions, key : Submissions]
      /\ Held /\ None \notin Submissions
  BY PagesAssumption DEF Inductive, TypeOK
<1>1. visit[v].pc # "closed" =>
        visit[v].token \in Submissions /\ \E l \in shared : l.token = visit[v].token
  BY <1>0 DEF Inductive, AsksOnce
<1>2. ASSUME UNCHANGED <<status, holder>>
      PROVE  /\ Held'
             /\ \A s \in Submissions : /\ status[s] # "unborn" => status'[s] # "unborn"
                                       /\ status[s] = "expired" => status'[s] = "expired"
             /\ \A x \in Visits : holder'[x] = holder[x]
  BY <1>0, <1>2 DEF Held
<1>3. ASSUME visit[v].pc # "closed", Gone(v), UNCHANGED <<status, holder>>,
             visit'[v].token = visit[v].token,
             visit[v].link = "again" => visit'[v].link = "again"
      PROVE  Gone(v)'
  BY <1>1, <1>3, GoneStays
<1>4. CASE Open(v)
  <2>1. visit[v].pc = "closed" /\ UNCHANGED <<canAssign, form, sub, shared, status, holder>>
    BY <1>4 DEF Open
  <2>2. PICK l \in shared, hash \in Submissions \cup {None} :
          visit' = [visit EXCEPT ![v].pc = "ready", ![v].token = l.token, ![v].hash = hash]
    BY <1>4 DEF Open
  <2> DEFINE w == [visit[v] EXCEPT !.pc = "ready", !.token = l.token, !.hash = hash]
  <2>3. /\ w \in VisitType /\ w.pc = "ready" /\ w.token = l.token
        /\ w.panel = visit[v].panel /\ w.link = visit[v].link
    BY <1>0 DEF VisitType
  <2>4. visit' = [visit EXCEPT ![v] = w]
    BY <1>0, <2>2
  <2>5. holder[v] = None /\ visit[v].panel = "reveal" /\ visit[v].link = "fresh"
    BY <2>1 DEF Inductive, AsksOnce
  <2> HIDE DEF w
  <2> QED
    BY <1>2, <2>1, <2>3, <2>4, <2>5, OneVisitStep
<1>5. CASE Enter(v)
  <2>1. /\ visit[v].pc = "ready" /\ visit[v].panel = "reveal"
        /\ UNCHANGED <<canAssign, form, sub, shared, status, holder>>
    BY <1>5 DEF Enter
  <2> DEFINE link == IF visit[v].link = "used" THEN "again" ELSE visit[v].link
  <2>2. PICK hash \in Submissions :
          visit' = [visit EXCEPT ![v].hash = hash, ![v].link = link]
    BY <1>0, <1>5 DEF Enter
  <2>3. link \in {"fresh", "again"} /\ (link = "fresh" => visit[v].link = "fresh")
    BY <1>0 DEF VisitType
  <2> HIDE DEF link
  <2> DEFINE w == [visit[v] EXCEPT !.hash = hash, !.link = link]
  <2>4. /\ w \in VisitType /\ w.pc = "ready" /\ w.token = visit[v].token
        /\ w.panel = "reveal" /\ w.link = link
    BY <1>0, <2>1, <2>3 DEF VisitType
  <2>5. visit' = [visit EXCEPT ![v] = w]
    BY <1>0, <2>2
  <2>6. holder[v] \in {None, visit[v].token} /\ (link = "fresh" => holder[v] = None)
    BY <2>3 DEF Inductive, AsksOnce
  <2> HIDE DEF w
  <2> QED
    BY <1>1, <1>2, <2>1, <2>3, <2>4, <2>5, <2>6, OneVisitStep
<1>6. CASE Click(v)
  <2>1. /\ visit[v].pc = "ready" /\ visit[v].panel = "reveal" /\ visit[v].hash # None
        /\ UNCHANGED <<canAssign, form, sub, shared, status, holder>>
    BY <1>6 DEF Click
  <2> DEFINE link == Used(visit[v].link)
             w == [visit[v] EXCEPT !.pc = "fetching", !.key = visit[v].hash, !.hash = None,
                                   !.link = link]
  <2>2. link \in {"used", "again"} /\ (link = "used" => visit[v].link = "fresh")
    <3>1. visit[v].link # "used"
      BY <2>1 DEF Inductive, AsksOnce
    <3> QED
      BY <1>0, <3>1 DEF Used, VisitType
  <2>3. visit' = [visit EXCEPT ![v] = w]
    BY <1>0, <1>6 DEF Click
  <2> HIDE DEF link
  <2>4. /\ w \in VisitType /\ w.pc = "fetching" /\ w.token = visit[v].token
        /\ w.panel = "reveal" /\ w.hash = None /\ w.link = link
    BY <1>0, <2>1, <2>2 DEF VisitType
  <2>5. holder[v] \in {None, visit[v].token} /\ (link = "used" => holder[v] = None)
    BY <2>2 DEF Inductive, AsksOnce
  <2> HIDE DEF w
  <2> QED
    BY <1>1, <1>2, <2>1, <2>2, <2>3, <2>4, <2>5, OneVisitStep
<1>7. ASSUME NEW answer \in {"200", "404", "failed"}, visit[v].pc = "fetching",
             visit' = [visit EXCEPT ![v].pc = answer],
             UNCHANGED <<canAssign, form, sub, shared>>,
             Held',
             \A s \in Submissions : /\ status[s] # "unborn" => status'[s] # "unborn"
                                    /\ status[s] = "expired" => status'[s] = "expired",
             \A x \in Visits : holder[x] \in Submissions => holder'[x] = holder[x],
             \A x \in Visits \ {v} : holder'[x] = holder[x],
             holder'[v] \in {holder[v], visit[v].token},
             answer = "200" => holder'[v] = visit[v].token,
             answer = "404" => Gone(v)
      PROVE  Inductive'
  <2> DEFINE w == [visit[v] EXCEPT !.pc = answer]
  <2>1. /\ w \in VisitType /\ w.pc = answer /\ w.token = visit[v].token
        /\ w.panel = visit[v].panel /\ w.hash = visit[v].hash /\ w.link = visit[v].link
    BY <1>0 DEF VisitType
  <2>2. visit' = [visit EXCEPT ![v] = w]
    BY <1>0, <1>7
  <2>3. /\ visit[v].link # "fresh" /\ visit[v].pc # "closed"
        /\ visit[v].link = "used" => visit[v].hash = None
        /\ holder[v] \in {None, visit[v].token}
    BY <1>7 DEF Inductive, AsksOnce
  <2>4. visit'[v] = w
    BY <1>0, <2>2
  <2>5. w.pc = "404" \/ w.panel = "gone" => Gone(v)
    BY <1>7, <2>1 DEF Inductive, GoneIsTrue
  <2>6. Gone(v) => Gone(v)'
    BY <1>1, <1>7, <2>1, <2>3, <2>4, GoneStays
  <2>7. \E l \in shared : l.token = w.token
    BY <1>1, <2>1, <2>3
  <2>8. w.pc = "200" \/ w.panel = "secret" => holder'[v] = w.token
    <3>1. visit[v].panel = "secret" => holder'[v] = visit[v].token
      BY <1>1, <1>7, <2>3 DEF Inductive, AsksOnce
    <3> QED
      BY <1>7, <2>1, <3>1
  <2> HIDE DEF w
  <2>9. /\ w.pc # "closed" /\ w.pc # "fetching" /\ w.link # "fresh"
        /\ w.link = "used" => w.hash = None
        /\ holder'[v] \in {None, w.token}
        /\ w.pc = "404" \/ w.panel = "gone" => Gone(v)'
    BY <1>7, <2>1, <2>3, <2>5, <2>6
  <2> QED
    BY <1>7, <2>1, <2>2, <2>7, <2>8, <2>9, OneVisitStep
<1>8. CASE Hand(v)
  <2>1. /\ visit[v].pc = "fetching" /\ Server!Reveal(visit[v].token, v)
        /\ visit[v].token \in Submissions
    BY <1>1, <1>8 DEF Hand
  <2>2. /\ Held'
        /\ \A s \in Submissions : /\ status[s] # "unborn" => status'[s] # "unborn"
                                  /\ status[s] = "expired" => status'[s] = "expired"
        /\ \A x \in Visits : holder[x] \in Submissions => holder'[x] = holder[x]
    BY <1>0, <2>1, ServerSteps
  <2>3. /\ \A x \in Visits \ {v} : holder'[x] = holder[x]
        /\ holder'[v] = visit[v].token
    BY <1>0, <2>1 DEF Server!Reveal, Held
  <2> QED
    BY <1>7, <1>8, <2>1, <2>2, <2>3 DEF Hand
<1>9. CASE NoSecret(v)
  <2>1. PICK answer \in {"404", "failed"} :
          /\ answer = "404" => status[visit[v].token] \notin Server!Published
          /\ visit' = [visit EXCEPT ![v].pc = answer]
    BY <1>9 DEF NoSecret
  <2>2. visit[v].pc = "fetching" /\ UNCHANGED <<canAssign, form, sub, shared, status, holder>>
    BY <1>9 DEF NoSecret
  <2>3. answer = "404" => Gone(v)
    <3> SUFFICES ASSUME answer = "404" PROVE Gone(v)
      OBVIOUS
    <3> DEFINE s == visit[v].token
    <3>1. s \in Submissions /\ status[s] # "unborn"
      BY <1>1, <2>2 DEF Inductive, LinkOpens
    <3>2. holder[v] = None \/ visit[v].link = "again"
      BY <1>0, <2>2 DEF Inductive, AsksOnce, VisitType
    <3>3. status[s] \in {"expired", "revealed"}
      BY <1>0, <2>1, <3>1 DEF Held
    <3>4. status[s] = "revealed" => \E x \in Visits : holder[x] = s
      BY <1>0, <3>1 DEF Held
    <3> QED
      BY <1>0, <3>1, <3>2, <3>3, <3>4 DEF Gone
  <2> QED
    BY <1>2, <1>7, <2>1, <2>2, <2>3
<1>10. CASE Respond(v)
  <2>1. /\ visit[v].pc \in {"200", "404", "failed"}
        /\ UNCHANGED <<canAssign, form, sub, shared, status, holder>>
    BY <1>10 DEF Respond
  <2> DEFINE p == IF visit[v].pc = "404" THEN "gone"
                  ELSE IF visit[v].pc = "200" /\ visit[v].key = visit[v].token
                         THEN "secret" ELSE visit[v].panel
             w == [visit[v] EXCEPT !.pc = "ready", !.key = None, !.panel = p]
  <2>2. /\ p \in {"reveal", "gone", "secret"} /\ (p = "gone" => Gone(v))
        /\ p = "secret" => holder[v] = visit[v].token
    BY <1>0, <2>1 DEF VisitType, Inductive, AsksOnce, GoneIsTrue
  <2>3. visit' = [visit EXCEPT ![v] = w]
    BY <1>0, <1>10 DEF Respond
  <2> HIDE DEF p
  <2>4. /\ w \in VisitType /\ w.pc = "ready" /\ w.token = visit[v].token
        /\ w.panel = p /\ w.hash = visit[v].hash /\ w.link = visit[v].link
    BY <1>0, <2>2 DEF VisitType
  <2>5. /\ visit[v].link # "fresh" /\ visit[v].pc # "closed"
        /\ visit[v].link = "used" => visit[v].hash = None
        /\ holder[v] \in {None, visit[v].token}
    BY <2>1 DEF Inductive, AsksOnce
  <2>6. w.panel = "gone" => Gone(v)'
    <3>1. visit'[v] = w
      BY <1>0, <2>3
    <3> QED
      BY <1>3, <2>1, <2>2, <2>4, <2>5, <3>1
  <2>7. w.panel = "secret" => holder'[v] = w.token
    BY <2>1, <2>2, <2>4
  <2> HIDE DEF w
  <2> QED
    BY <1>1, <1>2, <2>1, <2>3, <2>4, <2>5, <2>6, <2>7, OneVisitStep
<1> QED
  BY <1>4, <1>5, <1>6, <1>8, <1>9, <1>10

LEMMA StepInductive == Inductive /\ [Next]_vars => Inductive'
<1> SUFFICES ASSUME Inductive, [Next]_vars PROVE Inductive'
  OBVIOUS
<1> USE DEF server
<1>0. FormInv /\ LinkInv /\ Held
  BY Parts DEF LinkInv
<1>1. ASSUME UNCHANGED <<visit, shared, status, holder>> PROVE LinkInv'
  BY <1>0, <1>1 DEF LinkInv, Held, AsksOnce, LinkOpens, GoneIsTrue, Gone
<1>2. CASE \/ \E mode \in {"text", "file"} : switchMode(mode)
           \/ \E t \in Texts : TypeText(t)
           \/ \E f \in Files : ChooseFile(f) \/ DropFile(f)
           \/ ChooseNothing \/ resetForm
  <2>1. UNCHANGED <<canAssign, sub, shared, visit, server>>
    BY <1>2 DEF switchMode, TypeText, ChooseFile, ChooseNothing, DropFile, resetForm
  <2> QED
    BY <1>0, <1>1, <1>2, <2>1, EditStep, Parts DEF Inductive, FormInv, LinkInv
<1>3. ASSUME NEW s \in Submissions, SubmitFile(s) \/ SubmitText(s) PROVE Inductive'
  BY <1>0, <1>1, <1>3, SubmitStep DEF SubmitFile, SubmitText, Inductive, FormInv, LinkInv
<1>4. ASSUME NEW s \in Submissions,
             ReadFile(s) \/ Seal(s) \/ Store(s) \/ RefuseStore(s) \/ Answer(s)
      PROVE  Inductive'
  <2>1. FormInv'
    BY <1>0, <1>4, ProgressStep
  <2>2. LinkInv'
    <3>1. CASE ReadFile(s) \/ Seal(s) \/ RefuseStore(s)
      BY <1>1, <3>1 DEF ReadFile, Seal, RefuseStore
    <3>2. CASE Store(s)
      <4>1. /\ \E kind \in Server!Published : Server!Publish(s, kind)
            /\ UNCHANGED <<shared, visit>>
        BY <3>2 DEF Store
      <4>2. holder' = holder
        BY <4>1 DEF Server!Publish
      <4>3. /\ Held'
            /\ \A r \in Submissions : /\ status[r] # "unborn" => status'[r] # "unborn"
                                      /\ status[r] = "expired" => status'[r] = "expired"
        BY <1>0, <4>1, ServerSteps
      <4> QED
        BY <4>1, <4>2, <4>3, LinksGrow
    <3>3. CASE Answer(s)
      <4>1. /\ UNCHANGED <<visit, status, holder>>
            /\ shared' = IF sub[s].pc = "stored" THEN shared \cup {Link(s, s)} ELSE shared
        BY <3>3 DEF Answer, AnswerWith
      <4>2. sub[s].pc = "stored" => status[s] # "unborn"
        BY DEF Inductive, Carried
      <4>3. Link(s, s).token = s /\ Link(s, s).key = s
        BY DEF Link
      <4>4. \A l \in shared' \ shared : l.key = l.token /\ status'[l.token] # "unborn"
        BY <4>1, <4>2, <4>3
      <4>5. Held'
        BY <1>0, <4>1 DEF Held
      <4>6. shared \subseteq shared'
        BY <4>1
      <4> QED
        BY <4>1, <4>4, <4>5, <4>6, LinksGrow
    <3> QED
      BY <1>4, <3>1, <3>2, <3>3
  <2> QED
    BY <2>1, <2>2 DEF Inductive, FormInv, LinkInv
<1>5. ASSUME NEW v \in Visits,
             Open(v) \/ Enter(v) \/ Click(v) \/ Hand(v) \/ NoSecret(v) \/ Respond(v)
      PROVE  Inductive'
  BY <1>5, VisitStep
<1>6. CASE Expire
  <2>1. /\ \E s \in Submissions : Server!Expire({s})
        /\ UNCHANGED <<canAssign, form, sub, shared, visit>>
    BY <1>6 DEF Expire
  <2>2. /\ Held'
        /\ \A r \in Submissions : /\ status[r] # "unborn" => status'[r] # "unborn"
                                  /\ status[r] = "expired" => status'[r] = "expired"
    BY <1>0, <2>1, ServerSteps
  <2>3. holder' = holder
    BY <2>1 DEF Server!Expire
  <2>4. LinkInv'
    BY <2>1, <2>2, <2>3, LinksGrow
  <2>5. FormInv'
    BY <1>0, <2>1, <2>2, VisitsLeaveForm DEF FormInv, TypeOK
  <2> QED
    BY <2>4, <2>5 DEF Inductive, FormInv, LinkInv
<1>7. CASE UNCHANGED vars
  BY <1>7 DEF vars, Inductive, TypeOK, AsShown, SentFileIsShown, Carried, Held, AsksOnce,
              LinkOpens, GoneIsTrue, Gone, ButtonComesBack
<1> QED
  BY <1>2, <1>3, <1>4, <1>5, <1>6, <1>7 DEF Next

-----------------------------------------------------------------------------
(* Theorems *)

\* The inductive invariant that TLC checks holds for every instance.
THEOREM InductiveHolds == Spec => []Inductive
BY InitInductive, StepInductive, PTL DEF Spec

\* TypeOK: no file that validateFileInput refuses is ever held by the form.
THEOREM TypeCorrect == Spec => []TypeOK
<1>1. Inductive => TypeOK
  BY DEF Inductive
<1> QED
  BY <1>1, InductiveHolds, PTL

\* SentFileIsShown: where fileInput.files can be assigned, the submit handler
\* sends no file but the one whose name updateFileName left on display.
THEOREM SentFileIsShownHolds == Spec => []SentFileIsShown
<1>1. Inductive => SentFileIsShown
  BY DEF Inductive
<1> QED
  BY <1>1, InductiveHolds, PTL

\* LinkOpens: however many submissions overlap, each link carries the key its
\* own secret was sealed with, and is shown only after the server stored it.
THEOREM LinkOpensHolds == Spec => []LinkOpens
<1>1. Inductive => LinkOpens
  BY DEF Inductive
<1> QED
  BY <1>1, InductiveHolds, PTL

\* GoneIsTrue: revealSecret tells a visitor that the secret is gone only if it
\* is, and because of the visitor's own, earlier request only if the link was
\* entered again since that request.
THEOREM GoneIsTrueHolds == Spec => []GoneIsTrue
<1>1. Inductive => GoneIsTrue
  BY DEF Inductive
<1> QED
  BY <1>1, InductiveHolds, PTL

\* SeenOnce: the server's promise reaches the screen; revealSecret shows what
\* this visit's own request was given, and that was given to no other.
THEOREM SeenOnceHolds == Spec => []SeenOnce
<1>1. Inductive => SeenOnce
  <2> SUFFICES ASSUME Inductive, NEW v \in Visits, NEW w \in Visits,
                      visit[v].panel = "secret", visit[w].panel = "secret",
                      visit[v].token = visit[w].token
               PROVE  v = w
    BY DEF SeenOnce
  <2>1. holder[v] = visit[v].token /\ holder[w] = holder[v]
    BY DEF Inductive, AsksOnce
  <2>2. visit[v].token \in Submissions
    BY DEF Inductive, AsksOnce, TypeOK
  <2> QED
    BY <2>1, <2>2, PagesAssumption DEF Inductive, Held
<1> QED
  BY <1>1, InductiveHolds, PTL

\* ButtonComesBack: the finally block enables the button for every way that a
\* submission can end.
THEOREM ButtonComesBackHolds == Spec => []ButtonComesBack
<1>1. Inductive => ButtonComesBack
  BY DEF Inductive
<1> QED
  BY <1>1, InductiveHolds, PTL

\* The arithmetic of the two limits, of page and server.
LEMMA BodyFits ==
  ASSUME NEW h \in Nat, h <= 12000, NEW n \in Nat, NEW m \in Nat, n <= m
  PROVE  4 * ((4 + h + n + 16 + 2) \div 3) + 80 <= (m * 4) \div 3 + 16384
OBVIOUS

\* TooLargeIsSaid: a file that passes the page is never refused by the limit
\* on the body, as long as the envelope's header (the type and the name of the
\* file) stays below 12000 bytes; names have a few hundred at most.
THEOREM TooLargeIsSaidHolds ==
  ASSUME \A f \in Files : HeaderLen[f] <= 12000
  PROVE  Spec => []TooLargeIsSaid
<1>1. Inductive => TooLargeIsSaid
  <2> SUFFICES ASSUME Inductive, NEW s \in Submissions, sub[s].pc = "400",
                      sub[s].content \notin Texts
               PROVE  FALSE
    BY DEF TooLargeIsSaid
  <2> DEFINE c == sub[s].content
  <2>1. c \in Files /\ validateFileInput(c) /\ SizeVerdict(c) = "400"
    BY DEF Inductive, Carried
  <2>2. /\ Size[c] \in Nat /\ HeaderLen[c] \in Nat /\ MaxBytes \in Nat
        /\ HeaderLen[c] <= 12000 /\ Size[c] <= MaxBytes
    BY <2>1, PagesAssumption DEF validateFileInput
  <2>3. BodyLen(c) > BodyLimit
    BY <2>1 DEF SizeVerdict
  <2> HIDE DEF c
  <2>4. BodyLen(c) <= BodyLimit
    BY <2>2, BodyFits DEF BodyLen, BodyLimit, Base64Len, Sealed, Packed, Framing
  <2>5. BodyLen(c) \in Int /\ BodyLimit \in Int
    BY <2>2 DEF BodyLen, BodyLimit, Base64Len, Sealed, Packed, Framing
  <2> QED
    BY <2>3, <2>4, <2>5
<1> QED
  BY <1>1, InductiveHolds, PTL
=============================================================================
