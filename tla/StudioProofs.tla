---------------------------- MODULE StudioProofs -----------------------------
(***************************************************************************)
(* The web application for any number of pages, modules, files and demos:   *)
(* what the variables hold, and that what users import, edit and save is    *)
(* faithful to the file it names and can be played.  What a request brings  *)
(* with it is not looked at again when its answer comes, so the invariant   *)
(* follows the requests: which of them carry an import, and of which file.  *)
(***************************************************************************)
EXTENDS Studio, MidiProofs

-----------------------------------------------------------------------------
(* The invariant *)

\* An id, when n have been given, or none.
Ref(n)      == (0 .. n - 1) \cup {None}
Entries(n)  == [Ip -> [connected : BOOLEAN, current : Ref(n)]]
Pointers(n) == [Ip -> Ref(n)]
Chosen      == Files \cup {NoFile}
Stages      == {"asked", "served", "refused", "failed"}

Jobs  == {"poll", "effect", "upload", "all", "default", "colorblind", "orphan", "delete",
          "import", "accept", "editor"}
Calls == {"modules", "sequence", "upload", "import", "save", "delete"}

\* A request, when n ids have been given.
Asks(n) ==
  [page : Page, job : Jobs, call : Calls, stage : Stages, ips : SUBSET Ip, seq : Ref(n),
   list : Entries(n), file : Chosen, steps : Seq(Step)]

\* The steps are what the file has been made into.
Made(steps, file) == file \in Files /\ steps = Imported(file) /\ steps # Refused

\* Steps that the library and a chain of all modules take.
Sound(steps) ==
  steps \in Seq(Step) /\ LibraryTakes(steps) /\ FirmwareTakes(steps, MAX_TOTAL_KEYS)

\* What a request carries: a file to import, its steps once they are served; the result
\* that is accepted; an edited result; in each case steps that can be played.
Carries(r) ==
  /\ r.call = "import" => r.file \in Files /\ (r.stage = "served" => Made(r.steps, r.file))
  /\ r.stage = "refused" => r.file \in Files /\ Imported(r.file) = Refused
  /\ r.job = "accept" => Made(r.steps, r.file)
  /\ r.job = "editor" => Made(Imported(r.file), r.file)
  /\ r.job \in {"accept", "editor"} => r.call = "save"
  /\ r.call = "save" => Sound(r.steps)

Result == [status : {"none", "preview", "editing", "saved"}, file : Chosen, steps : Seq(Step)]

Shows(result) == result.status # "none" => Made(result.steps, result.file)

ModulesOK  == modules \in Entries(Len(library))
LibraryOK  == /\ library \in Seq(Seq(Step))
              /\ \A n \in 1 .. Len(library) : library[n] = Refused \/ Sound(library[n])
ListOK     == list \in [Page -> Entries(Len(library))]
SelectedOK == selected \in [Page -> Pointers(Len(library))]
KeyboardOK == keyboard \in [Page -> Pointers(Len(library))]
SwitchesOK == busy \in [Page -> BOOLEAN] /\ colorMode \in [Page -> {"default", "colorblind"}]
DialogOK   == /\ dialog \in [Page -> [file : Chosen, busy : BOOLEAN, saving : BOOLEAN, draft : Seq(Step),
                                  result : Result]]
              /\ \A p \in Page : Shows(dialog[p].result)
RequestsOK == \A r \in requests : r \in Asks(Len(library)) /\ Carries(r)
ActsOK     == acts \in [modules : Nat, imports : Nat, files : {"any", "few"}]

ViewsOK == ListOK /\ SelectedOK /\ KeyboardOK /\ SwitchesOK
StudioInv == ModulesOK /\ LibraryOK /\ ViewsOK /\ DialogOK /\ RequestsOK /\ ActsOK

-----------------------------------------------------------------------------
(* Files and steps *)

LEMMA FilesTypes ==
  \A f \in Files : f \in Seq(Seq(Note)) /\ f # NoFile
BY StudioAssumption DEF NoFile

LEMMA MadeIs ==
  ASSUME NEW steps, NEW file, Made(steps, file)
  PROVE  Good(steps) /\ Faithful(steps, file) /\ steps \in Seq(Step)
<1>1. file \in Seq(Seq(Note)) /\ steps = Imported(file) /\ Imported(file) # Refused
  BY FilesTypes DEF Made
<1>2. Good(steps) /\ Faithful(steps, file)
  BY <1>1, ImportedRightly
<1>3. QED
  BY <1>2 DEF Good

\* What two modules can play, four can.
LEMMA GoodSounds ==
  ASSUME NEW steps, Good(steps)
  PROVE  Sound(steps)
<1>1. /\ steps \in Seq(Step) /\ LibraryTakes(steps) /\ FirmwareTakes(steps, KEYS)
      /\ KEYS \in Nat /\ MAX_TOTAL_KEYS \in Nat /\ KEYS <= MAX_TOTAL_KEYS
  BY MidiAssumption DEF Good
<1>2. 0 .. KEYS - 1 \subseteq 0 .. MAX_TOTAL_KEYS - 1
  BY <1>1
<1>3. FirmwareTakes(steps, MAX_TOTAL_KEYS)
  BY <1>1, <1>2 DEF FirmwareTakes
<1>4. QED
  BY <1>1, <1>3 DEF Sound

\* What the editor lets pass, the library and the firmware take.
LEMMA DraftsSound ==
  ASSUME NEW steps \in Seq(Step), EditorTakes(steps)
  PROVE  Sound(steps)
<1>1. MAX_SEQUENCE_LENGTH \in Nat /\ Len(steps) \in 1 .. MAX_SEQUENCE_LENGTH
  BY MidiAssumption DEF EditorTakes
<1>2. Len(steps) <= MAX_SEQUENCE_LENGTH
  BY <1>1
<1>3. LibraryTakes(steps)
  BY <1>2 DEF LibraryTakes, EditorTakes
<1>4. FirmwareTakes(steps, MAX_TOTAL_KEYS)
  BY <1>1 DEF FirmwareTakes, EditorTakes
<1>5. QED
  BY <1>3, <1>4 DEF Sound

LEMMA Wider ==
  ASSUME NEW S, NEW T, S \subseteq T, NEW s \in Seq(S)
  PROVE  s \in Seq(T)
<1>1. Len(s) \in Nat /\ DOMAIN s = 1 .. Len(s) /\ \A n \in 1 .. Len(s) : s[n] \in T
  OBVIOUS
<1>2. s = [n \in 1 .. Len(s) |-> s[n]]
  OBVIOUS
<1>3. QED
  BY <1>1, <1>2

\* Whatever users do in the editor, they get steps.
LEMMA EnteredSteps == Entered \subseteq Step
<1>1. ASSUME NEW step \in Entered PROVE step \in Step
  <2>1. /\ step.keys \in Seq(0 .. MAX_TOTAL_KEYS - 1) /\ step.duration \in Nat
        /\ step = [keys |-> step.keys, duration |-> step.duration]
    BY StudioAssumption
  <2>2. 0 .. MAX_TOTAL_KEYS - 1 \subseteq Nat
    BY MidiAssumption
  <2>3. step.keys \in Seq(Nat)
    BY <2>1, <2>2, Wider
  <2>4. [keys |-> step.keys, duration |-> step.duration] \in Step
    BY <2>1, <2>3 DEF Step
  <2>5. QED
    BY <2>1, <2>4
<1>2. QED
  BY <1>1

LEMMA RemoveType ==
  ASSUME NEW steps \in Seq(Step), NEW n \in DOMAIN steps
  PROVE  RemoveAt(steps, n) \in Seq(Step) /\ Len(RemoveAt(steps, n)) = Len(steps) - 1
<1>1. n \in 1 .. Len(steps) /\ Len(steps) \in Nat
  OBVIOUS
<1>2. SubSeq(steps, 1, n - 1) \in Seq(Step) /\ Len(SubSeq(steps, 1, n - 1)) = n - 1
  BY <1>1, SubSeqProperties
<1>3. SubSeq(steps, n + 1, Len(steps)) \in Seq(Step) /\ Len(SubSeq(steps, n + 1, Len(steps))) = Len(steps) - n
  BY <1>1, SubSeqProperties
<1> DEFINE s == SubSeq(steps, 1, n - 1)
           t == SubSeq(steps, n + 1, Len(steps))
<1>4. RemoveAt(steps, n) = s \o t
  BY DEF RemoveAt
<1> HIDE DEF s, t
<1>5. s \in Seq(Step) /\ t \in Seq(Step) /\ Len(s) = n - 1 /\ Len(t) = Len(steps) - n
  BY <1>2, <1>3 DEF s, t
<1>6. s \o t \in Seq(Step) /\ Len(s \o t) = Len(s) + Len(t)
  BY <1>5, ConcatProperties
<1>7. QED
  BY <1>1, <1>4, <1>5, <1>6

LEMMA InsertType ==
  ASSUME NEW steps \in Seq(Step), NEW n \in 1 .. Len(steps) + 1, NEW step \in Step
  PROVE  InsertAt(steps, n, step) \in Seq(Step)
<1>1. Len(steps) \in Nat
  OBVIOUS
<1>2. SubSeq(steps, 1, n - 1) \in Seq(Step) /\ SubSeq(steps, n, Len(steps)) \in Seq(Step)
  BY <1>1, SubSeqProperties
<1>3. SubSeq(steps, 1, n - 1) \o <<step>> \in Seq(Step)
  BY <1>2, ConcatProperties
<1>4. QED
  BY <1>2, <1>3, ConcatProperties DEF InsertAt

LEMMA EditsTypes ==
  ASSUME NEW steps \in Seq(Step)
  PROVE  Edits(steps) \subseteq Seq(Step)
<1>1. ASSUME NEW step \in Entered PROVE Append(steps, step) \in Seq(Step)
  BY EnteredSteps
<1>2. ASSUME NEW step \in Entered, NEW n \in DOMAIN steps PROVE [steps EXCEPT ![n] = step] \in Seq(Step)
  BY EnteredSteps
<1>3. ASSUME NEW n \in DOMAIN steps PROVE RemoveAt(steps, n) \in Seq(Step)
  BY RemoveType
<1>4. ASSUME NEW from \in DOMAIN steps, NEW to \in DOMAIN steps
      PROVE  InsertAt(RemoveAt(steps, from), to, steps[from]) \in Seq(Step)
  <2>1. RemoveAt(steps, from) \in Seq(Step) /\ Len(RemoveAt(steps, from)) = Len(steps) - 1
    BY RemoveType
  <2>2. to \in 1 .. Len(RemoveAt(steps, from)) + 1 /\ steps[from] \in Step
    BY <2>1
  <2>3. QED
    BY <2>1, <2>2, InsertType
<1>5. {Append(steps, step) : step \in Entered} \subseteq Seq(Step)
  BY <1>1
<1>6. {[steps EXCEPT ![n] = step] : n \in DOMAIN steps, step \in Entered} \subseteq Seq(Step)
  BY <1>2
<1>7. {RemoveAt(steps, n) : n \in DOMAIN steps} \subseteq Seq(Step)
  BY <1>3
<1>8. {InsertAt(RemoveAt(steps, from), to, steps[from]) :
         from \in DOMAIN steps, to \in DOMAIN steps} \subseteq Seq(Step)
  BY <1>4
<1>9. QED
  BY <1>5, <1>6, <1>7, <1>8 DEF Edits

LEMMA NothingTypes ==
  ASSUME NEW n \in Nat
  PROVE  /\ NoModules \in Entries(n) /\ NoFile \in Chosen /\ Refused \in Seq(Step)
         /\ NoResult \in Result /\ Shows(NoResult)
<1>1. NoModules \in Entries(n)
  <2>1. None \in Ref(n)
    BY DEF Ref
  <2>2. [connected |-> FALSE, current |-> None] \in [connected : BOOLEAN, current : Ref(n)]
    BY <2>1
  <2>3. QED
    BY <2>2 DEF NoModules, Entries
<1>2. NoFile \in Chosen /\ Refused \in Seq(Step)
  BY DEF Chosen, Refused
<1>3. NoResult \in Result
  BY <1>2 DEF NoResult, Result
<1>4. Shows(NoResult)
  BY DEF Shows, NoResult
<1>5. QED
  BY <1>1, <1>2, <1>3, <1>4

\* Ids that have been given stay given.
LEMMA More ==
  ASSUME NEW n \in Nat
  PROVE  /\ Entries(n) \subseteq Entries(n + 1) /\ Pointers(n) \subseteq Pointers(n + 1)
         /\ Asks(n) \subseteq Asks(n + 1)
<1>1. Ref(n) \subseteq Ref(n + 1)
  BY DEF Ref
<1> DEFINE I == Ref(n)
           J == Ref(n + 1)
<1> HIDE DEF I, J
<1>2. [Ip -> [connected : BOOLEAN, current : I]] \subseteq [Ip -> [connected : BOOLEAN, current : J]]
  <2>1. [connected : BOOLEAN, current : I] \subseteq [connected : BOOLEAN, current : J]
    BY <1>1 DEF I, J
  <2>2. QED
    BY <2>1
<1>3. [Ip -> I] \subseteq [Ip -> J]
  BY <1>1 DEF I, J
<1>4. Entries(n) \subseteq Entries(n + 1) /\ Pointers(n) \subseteq Pointers(n + 1)
  BY <1>2, <1>3 DEF Entries, Pointers, I, J
<1>5. \A r \in Asks(n) : r \in Asks(n + 1)
  BY <1>1, <1>4 DEF Asks
<1>6. QED
  BY <1>4, <1>5

-----------------------------------------------------------------------------
(* Requests *)

LEMMA Fields ==
  ASSUME NEW n, NEW r \in Asks(n)
  PROVE  /\ r.page \in Page /\ r.job \in Jobs /\ r.call \in Calls /\ r.stage \in Stages
         /\ r.ips \in SUBSET Ip /\ r.seq \in Ref(n) /\ r.list \in Entries(n)
         /\ r.file \in Chosen /\ r.steps \in Seq(Step)
BY DEF Asks

LEMMA RequestIs ==
  ASSUME NEW n \in Nat, NEW p \in Page, NEW job \in Jobs, NEW call \in Calls
  PROVE  LET r == Request(p, job, call) IN
         /\ r \in Asks(n) /\ r.page = p /\ r.job = job /\ r.call = call /\ r.stage = "asked"
         /\ r.file = NoFile
<1>1. None \in Ref(n)
  BY DEF Ref
<1>2. QED
  BY <1>1, NothingTypes DEF Request, Asks, Stages

LEMMA AboutIs ==
  ASSUME NEW n, NEW r \in Asks(n), NEW ips \in SUBSET Ip, NEW id \in Ref(n)
  PROVE  LET a == About(r, ips, id) IN
         /\ a \in Asks(n) /\ a.job = r.job /\ a.call = r.call /\ a.stage = r.stage
         /\ a.file = r.file /\ a.steps = r.steps
BY DEF About, Asks

\* A request that is about modules carries no import.
LEMMA Plain ==
  ASSUME NEW r, r.stage = "asked", r.call \notin {"import", "save"}, r.job \notin {"accept", "editor"}
  PROVE  Carries(r)
BY DEF Carries

LEMMA StagedIs ==
  ASSUME NEW n, NEW r \in Asks(n), NEW s \in Stages
  PROVE  LET a == [r EXCEPT !.stage = s] IN
         /\ a \in Asks(n) /\ a.job = r.job /\ a.call = r.call /\ a.stage = s
         /\ a.file = r.file /\ a.steps = r.steps
BY DEF Asks

LEMMA ListedIs ==
  ASSUME NEW n, NEW r \in Asks(n), NEW mods \in Entries(n)
  PROVE  LET a == [r EXCEPT !.list = mods] IN
         /\ a \in Asks(n) /\ a.job = r.job /\ a.call = r.call /\ a.stage = r.stage
         /\ a.file = r.file /\ a.steps = r.steps
BY DEF Asks

LEMMA SteppedIs ==
  ASSUME NEW n, NEW r \in Asks(n), NEW steps \in Seq(Step)
  PROVE  LET a == [r EXCEPT !.steps = steps] IN
         /\ a \in Asks(n) /\ a.job = r.job /\ a.call = r.call /\ a.stage = r.stage
         /\ a.file = r.file /\ a.steps = steps
BY DEF Asks

LEMMA FiledIs ==
  ASSUME NEW n, NEW r \in Asks(n), NEW f \in Chosen
  PROVE  LET a == [r EXCEPT !.file = f] IN
         /\ a \in Asks(n) /\ a.job = r.job /\ a.call = r.call /\ a.stage = r.stage
         /\ a.file = f /\ a.steps = r.steps
BY DEF Asks

LEMMA JobIs ==
  ASSUME NEW n, NEW r \in Asks(n), NEW job \in Jobs
  PROVE  LET a == [r EXCEPT !.job = job] IN
         /\ a \in Asks(n) /\ a.job = job /\ a.call = r.call /\ a.stage = r.stage
         /\ a.file = r.file /\ a.steps = r.steps
BY DEF Asks

LEMMA OrphanIs ==
  ASSUME NEW n, NEW r \in Asks(n), Carries(r)
  PROVE  [r EXCEPT !.job = "orphan"] \in Asks(n) /\ Carries([r EXCEPT !.job = "orphan"])
<1> DEFINE a == [r EXCEPT !.job = "orphan"]
<1>1. /\ a \in Asks(n) /\ a.job = "orphan" /\ a.call = r.call /\ a.stage = r.stage
      /\ a.file = r.file /\ a.steps = r.steps
  <2>1. "orphan" \in Jobs
    BY DEF Jobs
  <2>2. QED
    BY <2>1, JobIs
<1> HIDE DEF a
<1>2. Carries(a)
  BY <1>1 DEF Carries
<1>3. QED
  BY <1>1, <1>2 DEF a

\* An answer carries what the request did, unless it brings an import.
LEMMA AnswerCarries ==
  ASSUME NEW n, NEW r \in Asks(n), Carries(r), NEW s \in {"served", "failed"},
         s = "served" => r.call # "import"
  PROVE  Carries([r EXCEPT !.stage = s])
<1> DEFINE a == [r EXCEPT !.stage = s]
<1>1. s \in Stages
  BY DEF Stages
<1>2. a.job = r.job /\ a.call = r.call /\ a.stage = s /\ a.file = r.file /\ a.steps = r.steps
  BY <1>1, StagedIs
<1> HIDE DEF a
<1>3. Carries(a)
  BY <1>2 DEF Carries
<1>4. QED
  BY <1>3 DEF a

LEMMA Booleans ==
  ASSUME NEW A, NEW B
  PROVE  (A /\ ~B) \in BOOLEAN /\ (A \/ B) \in BOOLEAN
OBVIOUS

-----------------------------------------------------------------------------
(* The invariant holds in the beginning *)

LEMMA InvInit == Init => StudioInv
<1> SUFFICES ASSUME Init PROVE StudioInv
  OBVIOUS
<1>1. library = Demos /\ requests = {} /\ acts \in Sessions
  BY DEF Init
<1>2. Demos \in Seq(Seq(Step)) /\ \A n \in DOMAIN Demos : Sound(Demos[n])
  <2>1. /\ Demos \in Seq(Seq(Step))
        /\ \A n \in DOMAIN Demos : LibraryTakes(Demos[n]) /\ FirmwareTakes(Demos[n], MAX_TOTAL_KEYS)
    BY StudioAssumption DEF Step
  <2>2. \A n \in DOMAIN Demos : Demos[n] \in Seq(Step)
    BY <2>1
  <2>3. QED
    BY <2>1, <2>2 DEF Sound
<1>3. Len(library) \in Nat /\ LibraryOK
  BY <1>1, <1>2 DEF LibraryOK
<1> DEFINE n == Len(library)
<1>4. None \in Ref(n)
  BY DEF Ref
<1>5. NoModules \in Entries(n) /\ NoFile \in Chosen /\ NoResult \in Result /\ Shows(NoResult)
  BY <1>3, NothingTypes
<1>6. ModulesOK
  <2>1. modules = [ip \in Ip |-> [connected |-> TRUE, current |-> None]]
    BY DEF Init
  <2>2. [connected |-> TRUE, current |-> None] \in [connected : BOOLEAN, current : Ref(n)]
    BY <1>4
  <2>3. QED
    BY <2>1, <2>2 DEF ModulesOK, Entries
<1>7. ListOK
  BY <1>5 DEF Init, ListOK
<1>8. [ip \in Ip |-> None] \in Pointers(n)
  BY <1>4 DEF Pointers
<1>9. SelectedOK /\ KeyboardOK
  BY <1>8 DEF Init, SelectedOK, KeyboardOK
<1>10. SwitchesOK
  BY DEF Init, SwitchesOK
<1>11. DialogOK
  <2> DEFINE window == [file |-> NoFile, busy |-> FALSE, saving |-> FALSE, draft |-> Refused,
                       result |-> NoResult]
  <2>1. dialog = [p \in Page |-> window]
    BY DEF Init
  <2>2. window \in [file : Chosen, busy : BOOLEAN, saving : BOOLEAN, draft : Seq(Step),
                    result : Result]
    BY <1>3, <1>5, NothingTypes
  <2>3. window.result = NoResult
    OBVIOUS
  <2> HIDE DEF window
  <2>4. QED
    BY <1>5, <2>1, <2>2, <2>3 DEF DialogOK
<1>12. RequestsOK
  BY <1>1 DEF RequestsOK
<1>13. ActsOK
  BY <1>1, StudioAssumption DEF ActsOK
<1>14. QED
  BY <1>3, <1>6, <1>7, <1>9, <1>10, <1>11, <1>12, <1>13 DEF StudioInv, ViewsOK

-----------------------------------------------------------------------------
(* Modules and the controller *)

LEMMA InvTypes ==
  ASSUME StudioInv
  PROVE  /\ Len(library) \in Nat /\ Id = 0 .. Len(library) - 1 /\ Id \subseteq Ref(Len(library))
         /\ \A r \in requests : r \in Asks(Len(library)) /\ Carries(r)
BY DEF StudioInv, LibraryOK, RequestsOK, Id, Ref

LEMMA Kept ==
  ASSUME StudioInv, NEW id \in Id
  PROVE  Steps(id) = Refused \/ Sound(Steps(id))
<1>1. Len(library) \in Nat /\ id \in 0 .. Len(library) - 1
  BY InvTypes
<1>2. id + 1 \in 1 .. Len(library)
  BY <1>1
<1>3. QED
  BY <1>2 DEF StudioInv, LibraryOK, Steps

LEMMA ActType ==
  ASSUME ActsOK, NEW about \in {"modules", "imports"}, Act(about)
  PROVE  ActsOK'
<1>1. /\ acts \in [modules : Nat, imports : Nat, files : {"any", "few"}]
      /\ acts[about] > 0 /\ acts' = [acts EXCEPT ![about] = acts[about] - 1]
  BY DEF ActsOK, Act
<1>2. acts[about] \in Nat
  BY <1>1
<1>3. acts[about] - 1 \in Nat
  BY <1>1, <1>2
<1>4. acts' \in [modules : Nat, imports : Nat, files : {"any", "few"}]
  BY <1>1, <1>3
<1>5. QED
  BY <1>4 DEF ActsOK

\* What does not touch the pages, their requests or the library needs no more than that.
LEMMA OnlyModules ==
  ASSUME StudioInv, library' = library, shown' = shown, dialog' = dialog, requests' = requests,
         ModulesOK', ActsOK'
  PROVE  StudioInv'
<1>1. list' = list /\ selected' = selected /\ keyboard' = keyboard /\ busy' = busy /\ colorMode' = colorMode
  BY DEF shown
<1>2. LibraryOK'
  BY DEF StudioInv, LibraryOK, Id
<1>3. ViewsOK'
  BY <1>1 DEF StudioInv, ViewsOK, ListOK, SelectedOK, KeyboardOK, SwitchesOK
<1>4. DialogOK' /\ RequestsOK'
  BY DEF StudioInv, DialogOK, RequestsOK
<1>5. QED
  BY <1>2, <1>3, <1>4 DEF StudioInv

LEMMA InvModules ==
  ASSUME StudioInv, NEW ip \in Ip, Leave(ip) \/ Return(ip) \/ Forget(ip)
  PROVE  StudioInv'
<1> DEFINE E == [connected : BOOLEAN, current : Ref(Len(library))]
<1>1. modules \in [Ip -> E] /\ None \in Ref(Len(library))
  BY InvTypes DEF StudioInv, ModulesOK, Entries, Ref
<1>2. library' = library /\ shown' = shown /\ dialog' = dialog /\ requests' = requests
  BY DEF Leave, Return, Forget
<1>3. ActsOK'
  <2>1. CASE Leave(ip) \/ Return(ip)
    BY <2>1, ActType DEF Leave, Return, StudioInv
  <2>2. CASE Forget(ip)
    BY <2>2 DEF Forget, StudioInv, ActsOK
  <2>3. QED
    BY <2>1, <2>2
<1>4. modules' \in [Ip -> E]
  <2>1. CASE Leave(ip)
    BY <1>1, <2>1 DEF Leave
  <2>2. CASE Return(ip)
    BY <1>1, <2>2 DEF Return
  <2>3. CASE Forget(ip)
    BY <1>1, <2>3 DEF Forget
  <2>4. QED
    BY <2>1, <2>2, <2>3
<1>5. ModulesOK'
  BY <1>2, <1>4 DEF ModulesOK, Entries
<1>6. QED
  BY <1>2, <1>3, <1>5, OnlyModules

\* What the controller does for one request leaves the pages alone.
LEMMA OnlyAnswer ==
  ASSUME StudioInv, shown' = shown, dialog' = dialog, library' = library, ModulesOK', ActsOK',
         NEW r \in requests, NEW answer \in Asks(Len(library)), Carries(answer), Answer(r, answer)
  PROVE  StudioInv'
<1>1. list' = list /\ selected' = selected /\ keyboard' = keyboard /\ busy' = busy /\ colorMode' = colorMode
  BY DEF shown
<1>2. LibraryOK'
  BY DEF StudioInv, LibraryOK, Id
<1>3. ViewsOK'
  BY <1>1 DEF StudioInv, ViewsOK, ListOK, SelectedOK, KeyboardOK, SwitchesOK
<1>4. DialogOK'
  BY DEF StudioInv, DialogOK
<1>5. RequestsOK'
  <2>1. \A q \in requests' : q \in requests \/ q = answer
    BY DEF Answer
  <2>2. QED
    BY <2>1, InvTypes DEF RequestsOK
<1>6. QED
  BY <1>2, <1>3, <1>4, <1>5 DEF StudioInv

LEMMA InvAnswered ==
  ASSUME StudioInv, shown' = shown, dialog' = dialog, library' = library, ModulesOK', ActsOK',
         NEW r \in requests, NEW s \in {"served", "failed"}, s = "served" => r.call # "import",
         Answer(r, [r EXCEPT !.stage = s])
  PROVE  StudioInv'
<1>1. r \in Asks(Len(library)) /\ Carries(r) /\ s \in Stages
  BY InvTypes DEF Stages
<1>2. [r EXCEPT !.stage = s] \in Asks(Len(library)) /\ Carries([r EXCEPT !.stage = s])
  BY <1>1, StagedIs, AnswerCarries
<1>3. QED
  BY <1>2, OnlyAnswer

LEMMA InvServeModules ==
  ASSUME StudioInv, NEW r \in requests, ServeModules(r), UNCHANGED <<shown, dialog, acts>>
  PROVE  StudioInv'
<1> DEFINE n == Len(library)
           a == [Served(r) EXCEPT !.list = modules]
<1>1. /\ r \in Asks(n) /\ Carries(r) /\ modules \in Entries(n) /\ r.call = "modules"
      /\ library' = library /\ modules' = modules /\ Answer(r, a)
  BY InvTypes DEF StudioInv, ModulesOK, ServeModules
<1>2. /\ Served(r) \in Asks(n) /\ Served(r).job = r.job /\ Served(r).call = r.call
      /\ Served(r).stage = "served" /\ Served(r).file = r.file /\ Served(r).steps = r.steps
  <2>1. "served" \in Stages
    BY DEF Stages
  <2>2. QED
    BY <1>1, <2>1, StagedIs DEF Served
<1> HIDE DEF n
<1>3. /\ a \in Asks(n) /\ a.job = r.job /\ a.call = r.call /\ a.stage = "served"
      /\ a.file = r.file /\ a.steps = r.steps
  BY <1>1, <1>2, ListedIs
<1> HIDE DEF a
<1>4. Carries(a)
  BY <1>1, <1>3 DEF Carries
<1>5. ModulesOK' /\ ActsOK'
  BY <1>1 DEF StudioInv, ModulesOK, ActsOK
<1>6. shown' = shown /\ dialog' = dialog
  OBVIOUS
<1>7. QED
  BY <1>1, <1>3, <1>4, <1>5, <1>6, OnlyAnswer DEF n

LEMMA InvServeSequence ==
  ASSUME StudioInv, NEW r \in requests, ServeSequence(r), UNCHANGED <<shown, dialog, acts>>
  PROVE  StudioInv'
<1>1. ModulesOK' /\ ActsOK'
  BY DEF StudioInv, ModulesOK, ActsOK, ServeSequence
<1>2. library' = library /\ r.call # "import" /\ shown' = shown /\ dialog' = dialog
  BY DEF ServeSequence
<1>3. CASE Answer(r, Served(r))
  BY <1>1, <1>2, <1>3, InvAnswered DEF Served
<1>4. CASE Answer(r, Failed(r))
  BY <1>1, <1>2, <1>4, InvAnswered DEF Failed
<1>5. QED
  BY <1>3, <1>4 DEF ServeSequence

LEMMA InvServeUpload ==
  ASSUME StudioInv, NEW r \in requests, ServeUpload(r), UNCHANGED <<shown, dialog, acts>>
  PROVE  StudioInv'
<1> DEFINE E == [connected : BOOLEAN, current : Ref(Len(library))]
<1>1. library' = library /\ r.call # "import" /\ shown' = shown /\ dialog' = dialog
  BY DEF ServeUpload
<1>2. ActsOK'
  BY DEF StudioInv, ActsOK
<1>3. modules \in [Ip -> E] /\ r.seq \in Ref(Len(library))
  BY InvTypes, Fields DEF StudioInv, ModulesOK, Entries
<1>4. CASE /\ Answer(r, Served(r))
           /\ modules' = [ip \in Ip |-> IF ip \in Targets(r)
                                          THEN [modules[ip] EXCEPT !.current = r.seq]
                                          ELSE modules[ip]]
  <2>1. \A ip \in Ip : [modules[ip] EXCEPT !.current = r.seq] \in E
    BY <1>3
  <2>2. modules' \in [Ip -> E]
    BY <1>3, <1>4, <2>1
  <2>3. ModulesOK'
    BY <1>1, <2>2 DEF ModulesOK, Entries
  <2>4. QED
    BY <1>1, <1>2, <1>4, <2>3, InvAnswered DEF Served
<1>5. CASE Answer(r, Failed(r)) /\ UNCHANGED modules
  <2>1. ModulesOK'
    BY <1>1, <1>5 DEF StudioInv, ModulesOK
  <2>2. QED
    BY <1>1, <1>2, <1>5, <2>1, InvAnswered DEF Failed
<1>6. QED
  BY <1>4, <1>5 DEF ServeUpload

LEMMA InvServeImport ==
  ASSUME StudioInv, NEW r \in requests, r.stage = "asked", ServeImport(r),
         UNCHANGED <<shown, dialog, acts>>
  PROVE  StudioInv'
<1> DEFINE n == Len(library)
           steps == Imported(r.file)
<1>1. r \in Asks(n) /\ Carries(r) /\ r.call = "import"
  BY InvTypes DEF ServeImport
<1>2. library' = library /\ shown' = shown /\ dialog' = dialog /\ ModulesOK' /\ ActsOK'
  BY DEF StudioInv, ModulesOK, ActsOK, ServeImport
<1>3. r.file \in Files
  BY <1>1 DEF Carries
<1> HIDE DEF n
<1>4. CASE steps = Refused
  <2> DEFINE a == [r EXCEPT !.stage = "refused"]
  <2>1. Answer(r, a)
    BY <1>4 DEF ServeImport
  <2>2. "refused" \in Stages
    BY DEF Stages
  <2>3. /\ a \in Asks(n) /\ a.job = r.job /\ a.call = r.call /\ a.stage = "refused"
        /\ a.file = r.file /\ a.steps = r.steps
    BY <1>1, <2>2, StagedIs
  <2> HIDE DEF a
  <2>4. Carries(a)
    BY <1>1, <1>3, <1>4, <2>3 DEF Carries
  <2>5. QED
    BY <1>2, <2>1, <2>3, <2>4, OnlyAnswer DEF n
<1>5. CASE steps # Refused
  <2> DEFINE a == [Served(r) EXCEPT !.steps = steps]
  <2>1. Answer(r, a)
    BY <1>5 DEF ServeImport
  <2>2. Made(steps, r.file)
    BY <1>3, <1>5 DEF Made
  <2>3. steps \in Seq(Step)
    BY <2>2, MadeIs
  <2> HIDE DEF steps
  <2>4. /\ Served(r) \in Asks(n) /\ Served(r).job = r.job /\ Served(r).call = r.call
        /\ Served(r).stage = "served" /\ Served(r).file = r.file
    <3>1. "served" \in Stages
      BY DEF Stages
    <3>2. QED
      BY <1>1, <3>1, StagedIs DEF Served
  <2>5. /\ a \in Asks(n) /\ a.job = r.job /\ a.call = r.call /\ a.stage = "served"
        /\ a.file = r.file /\ a.steps = steps
    BY <2>3, <2>4, SteppedIs
  <2> HIDE DEF a
  <2>6. a.job # "accept"
    BY <1>1, <2>5 DEF Carries
  <2>7. Carries(a)
    BY <1>1, <1>3, <2>2, <2>5 DEF Carries
  <2>8. QED
    BY <1>2, <2>1, <2>5, <2>7, OnlyAnswer DEF n
<1>6. QED
  BY <1>4, <1>5

LEMMA InvServeSave ==
  ASSUME StudioInv, NEW r \in requests, ServeSave(r), UNCHANGED <<shown, dialog, acts>>
  PROVE  StudioInv'
<1> DEFINE n == Len(library)
<1>1. /\ r \in Asks(n) /\ Carries(r) /\ r.call = "save" /\ n \in Nat
      /\ library \in Seq(Seq(Step)) /\ \A id \in 1 .. n : library[id] = Refused \/ Sound(library[id])
  BY InvTypes DEF ServeSave, StudioInv, LibraryOK
<1>2. shown' = shown /\ dialog' = dialog /\ acts' = acts /\ modules' = modules
  BY DEF ServeSave
<1>3. CASE library' = Append(library, r.steps) /\ Answer(r, Served(r))
  <2>1. Sound(r.steps) /\ r.steps \in Seq(Step)
    BY <1>1 DEF Carries, Sound
  <2>2. /\ library' \in Seq(Seq(Step)) /\ Len(library') = n + 1
        /\ \A i \in 1 .. n : library'[i] = library[i]
        /\ library'[n + 1] = r.steps
    BY <1>1, <1>3, <2>1, AppendProperties
  <2>3. LibraryOK'
    <3>1. \A id \in 1 .. n + 1 : id \in 1 .. n \/ id = n + 1
      BY <1>1
    <3>2. \A id \in 1 .. n + 1 : library'[id] = Refused \/ Sound(library'[id])
      BY <1>1, <2>1, <2>2, <3>1
    <3>3. QED
      BY <2>2, <3>2 DEF LibraryOK
  <2>4. /\ Entries(n) \subseteq Entries(n + 1) /\ Pointers(n) \subseteq Pointers(n + 1)
        /\ Asks(n) \subseteq Asks(n + 1)
    BY <1>1, More
  <2>5. /\ modules \in Entries(n) /\ list \in [Page -> Entries(n)]
        /\ selected \in [Page -> Pointers(n)] /\ keyboard \in [Page -> Pointers(n)]
    BY DEF StudioInv, ViewsOK, ModulesOK, ListOK, SelectedOK, KeyboardOK
  <2>6. \A q \in requests' : q \in requests \/ q = Served(r)
    BY <1>3 DEF Answer
  <2>7. "served" \in Stages /\ r.call # "import"
    BY <1>1 DEF Stages
  <2>8. Served(r) \in Asks(n) /\ Carries(Served(r))
    BY <1>1, <2>7, StagedIs, AnswerCarries DEF Served
  <2>9. \A q \in requests' : q \in Asks(n) /\ Carries(q)
    BY <2>6, <2>8, InvTypes
  <2> HIDE DEF n
  <2>10. /\ modules \in Entries(n + 1) /\ list \in [Page -> Entries(n + 1)]
         /\ selected \in [Page -> Pointers(n + 1)] /\ keyboard \in [Page -> Pointers(n + 1)]
    BY <2>4, <2>5
  <2>11. ModulesOK'
    BY <1>2, <2>2, <2>10 DEF ModulesOK
  <2>12. ViewsOK'
    BY <1>2, <2>2, <2>10 DEF StudioInv, ViewsOK, ListOK, SelectedOK, KeyboardOK, SwitchesOK, shown
  <2>13. RequestsOK'
    BY <2>2, <2>4, <2>9 DEF RequestsOK
  <2>14. DialogOK' /\ ActsOK'
    BY <1>2 DEF StudioInv, DialogOK, ActsOK
  <2>15. QED
    BY <2>3, <2>11, <2>12, <2>13, <2>14 DEF StudioInv
<1>4. CASE Answer(r, Failed(r)) /\ UNCHANGED library
  <2>1. library' = library /\ ModulesOK' /\ ActsOK' /\ Answer(r, [r EXCEPT !.stage = "failed"])
    BY <1>2, <1>4 DEF StudioInv, ModulesOK, ActsOK, Failed
  <2>2. QED
    BY <1>2, <2>1, InvAnswered
<1>5. QED
  BY <1>3, <1>4 DEF ServeSave

LEMMA InvServeDelete ==
  ASSUME StudioInv, NEW r \in requests, ServeDelete(r), UNCHANGED <<shown, dialog, acts>>
  PROVE  StudioInv'
<1> DEFINE n == Len(library)
<1>1. /\ r \in Asks(n) /\ Carries(r) /\ r.call = "delete" /\ n \in Nat
      /\ library \in Seq(Seq(Step)) /\ \A id \in 1 .. n : library[id] = Refused \/ Sound(library[id])
  BY InvTypes DEF ServeDelete, StudioInv, LibraryOK
<1>2. shown' = shown /\ dialog' = dialog /\ acts' = acts /\ modules' = modules
  BY DEF ServeDelete
<1>3. Refused \in Seq(Step)
  BY DEF Refused
<1>4. library' = [library EXCEPT ![r.seq + 1] = Refused] /\ DOMAIN library = 1 .. n
  BY <1>1 DEF ServeDelete
<1>5. /\ DOMAIN library' = 1 .. n
      /\ \A id \in 1 .. n : library'[id] = library[id] \/ library'[id] = Refused
  BY <1>4
<1>6. library' \in Seq(Seq(Step)) /\ Len(library') = n
  <2>1. \A id \in 1 .. n : library'[id] \in Seq(Step)
    BY <1>1, <1>3, <1>5
  <2>2. library' = [id \in 1 .. n |-> library'[id]]
    BY <1>4, <1>5
  <2> HIDE DEF n
  <2>3. library' \in [1 .. n -> Seq(Step)]
    BY <2>1, <2>2
  <2>4. QED
    BY <1>1, <2>3
<1>7. LibraryOK'
  BY <1>1, <1>5, <1>6 DEF LibraryOK
<1>8. \A q \in requests' : q \in requests \/ q = Served(r) \/ q = Failed(r)
  BY DEF ServeDelete, Answer
<1>9. {"served", "failed"} \subseteq Stages /\ r.call # "import"
  BY <1>1 DEF Stages
<1>10. /\ Served(r) \in Asks(n) /\ Carries(Served(r))
       /\ Failed(r) \in Asks(n) /\ Carries(Failed(r))
  BY <1>1, <1>9, StagedIs, AnswerCarries DEF Served, Failed
<1>11. \A q \in requests' : q \in Asks(n) /\ Carries(q)
  BY <1>8, <1>10, InvTypes
<1>12. ModulesOK'
  BY <1>2, <1>6 DEF StudioInv, ModulesOK
<1>13. ViewsOK'
  BY <1>2, <1>6 DEF StudioInv, ViewsOK, ListOK, SelectedOK, KeyboardOK, SwitchesOK, shown
<1>14. RequestsOK'
  BY <1>6, <1>11 DEF RequestsOK
<1>15. DialogOK' /\ ActsOK'
  BY <1>2 DEF StudioInv, DialogOK, ActsOK
<1>16. QED
  BY <1>7, <1>12, <1>13, <1>14, <1>15 DEF StudioInv

LEMMA InvServe ==
  ASSUME StudioInv, NEW r \in requests, Serve(r)
  PROVE  StudioInv'
<1>1. r.stage = "asked" /\ UNCHANGED <<shown, dialog, acts>>
  BY DEF Serve
<1>2. \/ ServeModules(r) \/ ServeSequence(r) \/ ServeUpload(r)
      \/ ServeImport(r) \/ ServeSave(r) \/ ServeDelete(r)
  BY DEF Serve
<1>3. QED
  BY <1>1, <1>2, InvServeModules, InvServeSequence, InvServeUpload, InvServeImport, InvServeSave,
     InvServeDelete

LEMMA InvLose ==
  ASSUME StudioInv, NEW r \in requests, Lose(r)
  PROVE  StudioInv'
<1>1. library' = library /\ modules' = modules /\ shown' = shown /\ dialog' = dialog
  BY DEF Lose
<1>2. ActsOK'
  <2> DEFINE about == IF Dialogs(r.call) THEN "imports" ELSE "modules"
  <2>1. about \in {"modules", "imports"} /\ Act(about) /\ ActsOK
    BY DEF Lose, StudioInv
  <2> HIDE DEF about
  <2>2. QED
    BY <2>1, ActType
<1>3. ModulesOK'
  BY <1>1 DEF StudioInv, ModulesOK
<1>4. Answer(r, [r EXCEPT !.stage = "failed"])
  BY DEF Lose, Failed
<1>5. QED
  BY <1>1, <1>2, <1>3, <1>4, InvAnswered

-----------------------------------------------------------------------------
(* The pages *)

\* What a page does leaves the controller alone.
LEMMA OnlyPages ==
  ASSUME StudioInv, library' = library, modules' = modules, ActsOK',
         list' \in [Page -> Entries(Len(library))],
         selected' \in [Page -> Pointers(Len(library))],
         keyboard' \in [Page -> Pointers(Len(library))],
         SwitchesOK', DialogOK',
         \A q \in requests' : q \in Asks(Len(library)) /\ Carries(q)
  PROVE  StudioInv'
<1>1. ModulesOK' /\ LibraryOK'
  BY DEF StudioInv, ModulesOK, LibraryOK, Id
<1>2. ViewsOK'
  BY DEF ViewsOK, ListOK, SelectedOK, KeyboardOK
<1>3. RequestsOK'
  BY DEF RequestsOK
<1>4. QED
  BY <1>1, <1>2, <1>3 DEF StudioInv

\* The parts of the invariant that speak of what a page keeps.
LEMMA ViewTypes ==
  ASSUME StudioInv
  PROVE  /\ list \in [Page -> Entries(Len(library))]
         /\ selected \in [Page -> Pointers(Len(library))]
         /\ keyboard \in [Page -> Pointers(Len(library))]
         /\ busy \in [Page -> BOOLEAN] /\ colorMode \in [Page -> {"default", "colorblind"}]
         /\ SwitchesOK /\ DialogOK /\ ActsOK
BY DEF StudioInv, ViewsOK, ListOK, SelectedOK, KeyboardOK, SwitchesOK

LEMMA SameSwitches ==
  ASSUME SwitchesOK, UNCHANGED <<busy, colorMode>>
  PROVE  SwitchesOK'
BY DEF SwitchesOK

LEMMA FreedType ==
  ASSUME SwitchesOK, NEW r, Freed(r), UNCHANGED colorMode
  PROVE  SwitchesOK'
<1>1. busy' = [busy EXCEPT ![r.page] = busy[r.page] /\ ~Frees(r)]
  BY DEF Freed
<1> DEFINE b == busy[r.page] /\ ~Frees(r)
<1>2. b \in BOOLEAN
  BY Booleans
<1>3. busy' = [busy EXCEPT ![r.page] = b]
  BY <1>1
<1> HIDE DEF b
<1>4. busy' \in [Page -> BOOLEAN]
  BY <1>2, <1>3 DEF SwitchesOK
<1>5. QED
  BY <1>4 DEF SwitchesOK

LEMMA SameDialog ==
  ASSUME DialogOK, UNCHANGED dialog
  PROVE  DialogOK'
BY DEF DialogOK

LEMMA PrunedType ==
  ASSUME NEW n \in Nat, NEW kept \in Pointers(n), NEW mods
  PROVE  Pruned(kept, mods) \in Pointers(n)
<1>1. None \in Ref(n)
  BY DEF Ref
<1>2. kept \in [Ip -> Ref(n)]
  BY DEF Pointers
<1>3. [ip \in Ip |-> IF ip \in Connected(mods) THEN kept[ip] ELSE None] \in [Ip -> Ref(n)]
  BY <1>1, <1>2
<1>4. QED
  BY <1>3 DEF Pruned, Pointers

LEMMA InvPoll ==
  ASSUME StudioInv, NEW p \in Page, Poll(p)
  PROVE  StudioInv'
<1> DEFINE n == Len(library)
           a == Request(p, "poll", "modules")
<1>1. /\ library' = library /\ modules' = modules /\ acts' = acts /\ dialog' = dialog
      /\ list' = list /\ selected' = selected /\ keyboard' = keyboard
      /\ busy' = busy /\ colorMode' = colorMode /\ requests' = requests \cup {a}
  BY DEF Poll, shown
<1>2. "poll" \in Jobs /\ "modules" \in Calls /\ n \in Nat
  BY InvTypes DEF Jobs, Calls
<1>3. a \in Asks(n) /\ a.job = "poll" /\ a.call = "modules" /\ a.stage = "asked"
  BY <1>2, RequestIs
<1>4. Carries(a)
  BY <1>3, Plain
<1> HIDE DEF a
<1>5. \A q \in requests' : q \in Asks(n) /\ Carries(q)
  BY <1>1, <1>3, <1>4, InvTypes
<1>6. ActsOK' /\ SwitchesOK' /\ DialogOK'
  BY <1>1, ViewTypes, SameSwitches, SameDialog DEF ActsOK
<1>7. QED
  BY <1>1, <1>5, <1>6, ViewTypes, OnlyPages

LEMMA FetchesTypes ==
  ASSUME NEW n \in Nat, NEW p \in Page, NEW cached, NEW mods \in Entries(n)
  PROVE  \A q \in Fetches(p, cached, mods) : q \in Asks(n) /\ Carries(q)
<1> DEFINE a == Request(p, "effect", "sequence")
<1>1. "effect" \in Jobs /\ "sequence" \in Calls
  BY DEF Jobs, Calls
<1>2. a \in Asks(n) /\ a.job = "effect" /\ a.call = "sequence" /\ a.stage = "asked"
  BY <1>1, RequestIs
<1> HIDE DEF a
<1>3. ASSUME NEW ip \in Ip
      PROVE  About(a, {ip}, mods[ip].current) \in Asks(n) /\ Carries(About(a, {ip}, mods[ip].current))
  <2> DEFINE b == About(a, {ip}, mods[ip].current)
  <2>1. mods[ip].current \in Ref(n) /\ {ip} \in SUBSET Ip
    BY DEF Entries
  <2>2. b \in Asks(n) /\ b.job = a.job /\ b.call = a.call /\ b.stage = a.stage
    BY <1>2, <2>1, AboutIs
  <2> HIDE DEF b
  <2>3. Carries(b)
    BY <1>2, <2>2, Plain
  <2>4. QED
    BY <2>2, <2>3 DEF b
<1>4. ASSUME NEW q \in Fetches(p, cached, mods)
      PROVE  \E ip \in Ip : q = About(a, {ip}, mods[ip].current)
  BY DEF Fetches, a
<1>5. QED
  BY <1>3, <1>4

LEMMA InvRefreshed ==
  ASSUME StudioInv, NEW r \in requests, Refreshed(r), UNCHANGED <<modules, library, acts>>
  PROVE  StudioInv'
<1> DEFINE n == Len(library)
           cached == Pruned(keyboard[r.page], r.list)
<1>1. n \in Nat /\ r \in Asks(n) /\ r.page \in Page /\ r.list \in Entries(n)
  BY InvTypes, Fields
<1>2. /\ list \in [Page -> Entries(n)] /\ selected \in [Page -> Pointers(n)]
      /\ keyboard \in [Page -> Pointers(n)] /\ SwitchesOK /\ DialogOK /\ ActsOK
  BY ViewTypes
<1>3. SwitchesOK' /\ DialogOK' /\ ActsOK'
  <2>1. Freed(r) /\ UNCHANGED colorMode /\ UNCHANGED dialog /\ acts' = acts
    BY DEF Refreshed
  <2>2. QED
    BY <1>2, <2>1, FreedType, SameDialog DEF ActsOK
<1>4. library' = library /\ modules' = modules
  OBVIOUS
<1>5. CASE r.stage = "served"
  <2>1. /\ list' = [list EXCEPT ![r.page] = r.list]
        /\ selected' = [selected EXCEPT ![r.page] = Pruned(selected[r.page], r.list)]
        /\ keyboard' = [keyboard EXCEPT ![r.page] = cached]
        /\ requests' = (requests \ {r}) \cup Fetches(r.page, cached, r.list)
    BY <1>5 DEF Refreshed
  <2>2. selected[r.page] \in Pointers(n) /\ keyboard[r.page] \in Pointers(n)
    BY <1>1, <1>2
  <2> HIDE DEF n
  <2>3. cached \in Pointers(n) /\ Pruned(selected[r.page], r.list) \in Pointers(n)
    BY <1>1, <2>2, PrunedType
  <2>4. \A q \in Fetches(r.page, cached, r.list) : q \in Asks(n) /\ Carries(q)
    BY <1>1, FetchesTypes
  <2> HIDE DEF cached
  <2>5. /\ list' \in [Page -> Entries(n)] /\ selected' \in [Page -> Pointers(n)]
        /\ keyboard' \in [Page -> Pointers(n)]
    BY <1>1, <1>2, <2>1, <2>3
  <2>6. \A q \in requests' : q \in Asks(n) /\ Carries(q)
    BY <2>1, <2>4, InvTypes DEF n
  <2>7. QED
    BY <1>3, <1>4, <2>5, <2>6, OnlyPages DEF n
<1>6. CASE r.stage # "served"
  <2>1. requests' = requests \ {r} /\ list' = list /\ selected' = selected /\ keyboard' = keyboard
    BY <1>6 DEF Refreshed
  <2>2. \A q \in requests' : q \in Asks(n) /\ Carries(q)
    BY <2>1, InvTypes
  <2>3. QED
    BY <1>2, <1>3, <1>4, <2>1, <2>2, OnlyPages
<1>7. QED
  BY <1>5, <1>6

\* A page's notes about some modules are set to one sequence.
LEMMA Noted ==
  ASSUME NEW n \in Nat, NEW kept \in Pointers(n), NEW ips, NEW id \in Ref(n)
  PROVE  [ip \in Ip |-> IF ip \in ips THEN id ELSE kept[ip]] \in Pointers(n)
BY DEF Pointers

LEMMA InvFetched ==
  ASSUME StudioInv, NEW r \in requests, Fetched(r), UNCHANGED <<modules, library, acts>>
  PROVE  StudioInv'
<1> DEFINE n == Len(library)
           a == Request(r.page, r.job, "modules")
           noted == [ip \in Ip |-> IF ip \in r.ips THEN r.seq ELSE keyboard[r.page][ip]]
<1>1. n \in Nat /\ r \in Asks(n) /\ Carries(r) /\ r.page \in Page /\ r.job \in Jobs /\ r.seq \in Ref(n)
  BY InvTypes, Fields
<1>2. keyboard \in [Page -> Pointers(n)] /\ SwitchesOK /\ DialogOK /\ ActsOK
  BY ViewTypes
<1>3. /\ library' = library /\ modules' = modules /\ list' = list /\ selected' = selected
      /\ busy' = busy /\ colorMode' = colorMode /\ dialog' = dialog /\ acts' = acts
      /\ keyboard' = IF r.stage = "served" THEN [keyboard EXCEPT ![r.page] = noted] ELSE keyboard
      /\ \A q \in requests' : q \in requests \/ q = a
      /\ r.call = "sequence"
  BY DEF Fetched
<1> HIDE DEF n
<1>4. noted \in Pointers(n)
  BY <1>1, <1>2, Noted
<1> HIDE DEF noted
<1>5. keyboard' \in [Page -> Pointers(n)]
  BY <1>1, <1>2, <1>3, <1>4
<1>6. a \in Asks(n) /\ a.job = r.job /\ a.call = "modules" /\ a.stage = "asked"
  <2>1. "modules" \in Calls
    BY DEF Calls
  <2>2. QED
    BY <1>1, <2>1, RequestIs
<1> HIDE DEF a
<1>7. r.job \notin {"accept", "editor"}
  BY <1>1, <1>3 DEF Carries
<1>8. Carries(a)
  BY <1>6, <1>7, Plain
<1>9. \A q \in requests' : q \in Asks(n) /\ Carries(q)
  BY <1>3, <1>6, <1>8, InvTypes DEF n
<1>10. SwitchesOK' /\ DialogOK' /\ ActsOK'
  BY <1>2, <1>3, SameSwitches, SameDialog DEF ActsOK
<1>11. QED
  BY <1>3, <1>5, <1>9, <1>10, ViewTypes, OnlyPages DEF n

\* What a page asks about modules carries no import.
LEMMA AskedAbout ==
  ASSUME NEW n \in Nat, NEW p \in Page, NEW job \in Jobs \ {"accept", "editor"},
         NEW call \in Calls \ {"import", "save"}, NEW ips \in SUBSET Ip, NEW id \in Ref(n)
  PROVE  LET a == About(Request(p, job, call), ips, id) IN a \in Asks(n) /\ Carries(a)
<1> DEFINE q == Request(p, job, call)
           a == About(q, ips, id)
<1>1. q \in Asks(n) /\ q.job = job /\ q.call = call /\ q.stage = "asked"
  BY RequestIs
<1> HIDE DEF q
<1>2. a \in Asks(n) /\ a.job = job /\ a.call = call /\ a.stage = "asked"
  BY <1>1, AboutIs
<1> HIDE DEF a
<1>3. Carries(a)
  BY <1>2, Plain
<1>4. QED
  BY <1>2, <1>3 DEF a, q

LEMMA Busied ==
  ASSUME SwitchesOK, NEW p, NEW b \in BOOLEAN, busy' = [busy EXCEPT ![p] = b], UNCHANGED colorMode
  PROVE  SwitchesOK'
BY DEF SwitchesOK

LEMMA InvPicks ==
  ASSUME StudioInv, NEW p \in Page, NEW id \in Id,
         \/ PickForAll(p, id) \/ Delete(p, id) \/ \E ip \in Ip : PickSequence(p, ip, id)
  PROVE  StudioInv'
<1> DEFINE n == Len(library)
           about(job, call, ips) == About(Request(p, job, call), ips, id)
<1>1. n \in Nat /\ id \in Ref(n)
  BY InvTypes
<1>2. /\ library' = library /\ modules' = modules /\ dialog' = dialog
      /\ list' = list /\ selected' = selected /\ keyboard' = keyboard /\ colorMode' = colorMode
      /\ busy' = [busy EXCEPT ![p] = TRUE] /\ Act("modules")
  BY DEF PickForAll, Delete, PickSequence
<1>3. ActsOK' /\ SwitchesOK' /\ DialogOK'
  BY <1>2, ViewTypes, ActType, Busied, SameDialog
<1>4. \A q \in requests' : q \in Asks(n) /\ Carries(q)
  <2>1. CASE PickForAll(p, id)
    <3>1. "all" \in Jobs \ {"accept", "editor"} /\ "upload" \in Calls \ {"import", "save"}
      BY DEF Jobs, Calls
    <3>2. Connected(list[p]) \in SUBSET Ip
      BY DEF Connected
    <3>3. requests' = requests \cup {about("all", "upload", Connected(list[p]))}
      BY <2>1 DEF PickForAll
    <3>4. QED
      BY <1>1, <3>1, <3>2, <3>3, AskedAbout, InvTypes
  <2>2. CASE Delete(p, id)
    <3>1. "delete" \in Jobs \ {"accept", "editor"} /\ "delete" \in Calls \ {"import", "save"}
      BY DEF Jobs, Calls
    <3>2. requests' = requests \cup {about("delete", "delete", {})}
      BY <2>2 DEF Delete
    <3>3. QED
      BY <1>1, <3>1, <3>2, AskedAbout, InvTypes
  <2>3. ASSUME NEW ip \in Ip, PickSequence(p, ip, id)
        PROVE  \A q \in requests' : q \in Asks(n) /\ Carries(q)
    <3>1. "upload" \in Jobs \ {"accept", "editor"} /\ "upload" \in Calls \ {"import", "save"}
      BY DEF Jobs, Calls
    <3>2. requests' = requests \cup {about("upload", "upload", {ip})} /\ {ip} \in SUBSET Ip
      BY <2>3 DEF PickSequence
    <3>3. QED
      BY <1>1, <3>1, <3>2, AskedAbout, InvTypes
  <2>4. QED
    BY <2>1, <2>2, <2>3
<1>5. QED
  BY <1>2, <1>3, <1>4, ViewTypes, OnlyPages

LEMMA InvUploaded ==
  ASSUME StudioInv, NEW r \in requests, Uploaded(r), UNCHANGED <<modules, library, acts>>
  PROVE  StudioInv'
<1> DEFINE n == Len(library)
           noted == [ip \in Ip |-> IF ip \in r.ips THEN r.seq ELSE selected[r.page][ip]]
           a == About(Request(r.page, r.job, "sequence"), r.ips, r.seq)
<1>1. /\ n \in Nat /\ r.page \in Page /\ r.ips \in SUBSET Ip /\ r.seq \in Ref(n)
      /\ r.job \in Jobs
  BY InvTypes, Fields
<1>2. selected \in [Page -> Pointers(n)] /\ SwitchesOK /\ DialogOK /\ ActsOK
  BY ViewTypes
<1>3. /\ library' = library /\ modules' = modules /\ list' = list /\ keyboard' = keyboard
      /\ colorMode' = colorMode /\ dialog' = dialog /\ acts' = acts
      /\ r.job \in {"upload", "all"}
  BY DEF Uploaded
<1>4. ActsOK' /\ DialogOK'
  BY <1>2, <1>3, SameDialog DEF ActsOK
<1>5. CASE r.stage = "served"
  <2>1. /\ selected' = [selected EXCEPT ![r.page] = noted]
        /\ requests' = (requests \ {r}) \cup {a} /\ busy' = busy
    BY <1>5 DEF Uploaded
  <2> HIDE DEF n
  <2>2. noted \in Pointers(n)
    BY <1>1, <1>2, Noted
  <2> HIDE DEF noted
  <2>3. selected' \in [Page -> Pointers(n)]
    BY <1>1, <1>2, <2>1, <2>2
  <2>4. r.job \in Jobs \ {"accept", "editor"} /\ "sequence" \in Calls \ {"import", "save"}
    BY <1>1, <1>3 DEF Calls
  <2>5. a \in Asks(n) /\ Carries(a)
    BY <1>1, <2>4, AskedAbout
  <2> HIDE DEF a
  <2>6. \A q \in requests' : q \in Asks(n) /\ Carries(q)
    BY <2>1, <2>5, InvTypes DEF n
  <2>7. SwitchesOK'
    BY <1>2, <1>3, <2>1, SameSwitches
  <2>8. QED
    BY <1>3, <1>4, <2>3, <2>6, <2>7, ViewTypes, OnlyPages DEF n
<1>6. CASE r.stage # "served"
  <2>1. requests' = requests \ {r} /\ Freed(r) /\ selected' = selected
    BY <1>6 DEF Uploaded
  <2>2. \A q \in requests' : q \in Asks(n) /\ Carries(q)
    BY <2>1, InvTypes
  <2>3. SwitchesOK'
    BY <1>2, <1>3, <2>1, FreedType
  <2>4. QED
    BY <1>3, <1>4, <2>1, <2>2, <2>3, ViewTypes, OnlyPages
<1>7. QED
  BY <1>5, <1>6

LEMMA InvToggle ==
  ASSUME StudioInv, NEW p \in Page, ToggleColors(p)
  PROVE  StudioInv'
<1> DEFINE n == Len(library)
           mode == IF colorMode[p] = "default" THEN "colorblind" ELSE "default"
           to(ip) == About(Request(p, mode, "upload"), {ip}, selected[p][ip])
           uploads == {to(ip) : ip \in {i \in Connected(list[p]) : selected[p][i] # None}}
           b == busy[p] \/ uploads # {}
<1>1. /\ library' = library /\ modules' = modules /\ dialog' = dialog
      /\ list' = list /\ selected' = selected /\ keyboard' = keyboard
      /\ colorMode' = [colorMode EXCEPT ![p] = mode] /\ Act("modules")
      /\ busy' = [busy EXCEPT ![p] = b] /\ requests' = requests \cup uploads
  BY DEF ToggleColors
<1>2. /\ n \in Nat /\ selected \in [Page -> Pointers(n)] /\ ActsOK /\ DialogOK
      /\ busy \in [Page -> BOOLEAN] /\ colorMode \in [Page -> {"default", "colorblind"}]
  BY InvTypes, ViewTypes
<1>3. mode \in {"default", "colorblind"}
  OBVIOUS
<1>4. ASSUME NEW ip \in Ip PROVE to(ip) \in Asks(n) /\ Carries(to(ip))
  <2>1. mode \in Jobs \ {"accept", "editor"} /\ "upload" \in Calls \ {"import", "save"}
    BY <1>3 DEF Jobs, Calls
  <2>2. {ip} \in SUBSET Ip /\ selected[p][ip] \in Ref(n)
    BY <1>2 DEF Pointers
  <2> HIDE DEF n, mode
  <2>3. QED
    BY <1>2, <2>1, <2>2, AskedAbout
<1>5. \A q \in uploads : \E ip \in Ip : q = to(ip)
  BY DEF Connected
<1> HIDE DEF to, mode
<1>6. \A q \in requests' : q \in Asks(n) /\ Carries(q)
  BY <1>1, <1>4, <1>5, InvTypes
<1>7. b \in BOOLEAN
  BY Booleans
<1> HIDE DEF b
<1>8. busy' \in [Page -> BOOLEAN] /\ colorMode' \in [Page -> {"default", "colorblind"}]
  BY <1>1, <1>2, <1>3, <1>7
<1>9. ActsOK' /\ DialogOK' /\ SwitchesOK'
  BY <1>1, <1>2, <1>8, ActType, SameDialog DEF SwitchesOK
<1>10. QED
  BY <1>1, <1>6, <1>9, ViewTypes, OnlyPages

LEMMA InvRecolored ==
  ASSUME StudioInv, NEW r \in requests, Recolored(r), UNCHANGED <<modules, library, acts>>
  PROVE  StudioInv'
<1> DEFINE n == Len(library)
           a == Request(r.page, r.job, "modules")
           others == {o \in requests \ {r} : o.page = r.page /\ o.job = r.job}
<1>1. n \in Nat /\ r.page \in Page /\ r.job \in Jobs
  BY InvTypes, Fields
<1>2. SwitchesOK /\ DialogOK /\ ActsOK
  BY ViewTypes
<1>3. /\ library' = library /\ modules' = modules /\ list' = list /\ selected' = selected
      /\ keyboard' = keyboard /\ colorMode' = colorMode /\ dialog' = dialog /\ acts' = acts
      /\ r.job \in {"default", "colorblind"}
  BY DEF Recolored
<1>4. ActsOK' /\ DialogOK'
  BY <1>2, <1>3, SameDialog DEF ActsOK
<1>5. CASE r.stage = "served"
  <2>1. busy' = busy /\ \A q \in requests' : q \in requests \/ q = a
    BY <1>5 DEF Recolored
  <2>2. "modules" \in Calls
    BY DEF Calls
  <2>3. a \in Asks(n) /\ a.job = r.job /\ a.call = "modules" /\ a.stage = "asked"
    BY <1>1, <2>2, RequestIs
  <2> HIDE DEF a
  <2>4. Carries(a)
    BY <1>3, <2>3, Plain
  <2>5. \A q \in requests' : q \in Asks(n) /\ Carries(q)
    BY <2>1, <2>3, <2>4, InvTypes
  <2>6. SwitchesOK'
    BY <1>2, <1>3, <2>1, SameSwitches
  <2>7. QED
    BY <1>3, <1>4, <2>5, <2>6, ViewTypes, OnlyPages
<1>6. CASE r.stage # "served"
  <2>1. /\ requests' = (requests \ (others \cup {r})) \cup {[o EXCEPT !.job = "orphan"] : o \in others}
        /\ Freed(r)
    BY <1>6 DEF Recolored
  <2>2. \A q \in requests' : q \in requests \/ \E o \in requests : q = [o EXCEPT !.job = "orphan"]
    BY <2>1
  <2>3. \A q \in requests' : q \in Asks(n) /\ Carries(q)
    BY <2>2, InvTypes, OrphanIs
  <2>4. SwitchesOK'
    BY <1>2, <1>3, <2>1, FreedType
  <2>5. QED
    BY <1>3, <1>4, <2>3, <2>4, ViewTypes, OnlyPages
<1>7. QED
  BY <1>5, <1>6

LEMMA InvIgnored ==
  ASSUME StudioInv, NEW r \in requests, Ignored(r) \/ Deleted(r), UNCHANGED <<modules, library, acts>>
  PROVE  StudioInv'
<1>1. /\ library' = library /\ modules' = modules /\ list' = list /\ selected' = selected
      /\ keyboard' = keyboard /\ colorMode' = colorMode /\ dialog' = dialog /\ acts' = acts
      /\ requests' = requests \ {r}
  BY DEF Ignored, Deleted, shown
<1>2. SwitchesOK'
  <2>1. CASE Ignored(r)
    BY <1>1, <2>1, ViewTypes, SameSwitches DEF Ignored, shown
  <2>2. CASE Deleted(r)
    BY <1>1, <2>2, ViewTypes, FreedType DEF Deleted
  <2>3. QED
    BY <2>1, <2>2
<1>3. ActsOK' /\ DialogOK'
  BY <1>1, ViewTypes, SameDialog DEF ActsOK
<1>4. \A q \in requests' : q \in Asks(Len(library)) /\ Carries(q)
  BY <1>1, InvTypes
<1>5. QED
  BY <1>1, <1>2, <1>3, <1>4, ViewTypes, OnlyPages

-----------------------------------------------------------------------------
(* The dialog *)

Window == [file : Chosen, busy : BOOLEAN, saving : BOOLEAN, draft : Seq(Step), result : Result]

\* One page's dialog becomes another.
LEMMA DialogChanges ==
  ASSUME DialogOK, NEW p \in Page, NEW w \in Window, Shows(w.result),
         dialog' = [dialog EXCEPT ![p] = w]
  PROVE  DialogOK'
<1>1. dialog \in [Page -> Window] /\ \A q \in Page : Shows(dialog[q].result)
  BY DEF DialogOK, Window
<1> HIDE DEF Window
<1>2. dialog' \in [Page -> Window] /\ \A q \in Page : dialog'[q] = w \/ dialog'[q] = dialog[q]
  BY <1>1
<1>3. \A q \in Page : Shows(dialog'[q].result)
  BY <1>1, <1>2
<1>4. QED
  BY <1>2, <1>3 DEF DialogOK, Window

LEMMA DialogTypes ==
  ASSUME DialogOK, NEW p \in Page
  PROVE  /\ dialog[p] \in Window /\ dialog[p].file \in Chosen
         /\ dialog[p].busy \in BOOLEAN /\ dialog[p].saving \in BOOLEAN /\ dialog[p].draft \in Seq(Step)
         /\ dialog[p].result \in Result /\ Shows(dialog[p].result)
         /\ dialog \in [Page -> Window]
<1>1. dialog \in [Page -> Window] /\ Shows(dialog[p].result)
  BY DEF DialogOK, Window
<1>2. \A w \in Window : /\ w.file \in Chosen /\ w.busy \in BOOLEAN /\ w.saving \in BOOLEAN
                        /\ w.draft \in Seq(Step) /\ w.result \in Result
  BY DEF Window
<1>3. dialog[p] \in Window
  BY <1>1
<1>4. QED
  BY <1>1, <1>2, <1>3

\* What such a step leaves as it was.
LEMMA OnlyDialog ==
  ASSUME StudioInv, library' = library, modules' = modules, UNCHANGED shown, ActsOK', DialogOK',
         \A q \in requests' : q \in Asks(Len(library)) /\ Carries(q)
  PROVE  StudioInv'
<1>1. /\ list' = list /\ selected' = selected /\ keyboard' = keyboard
      /\ busy' = busy /\ colorMode' = colorMode
  BY DEF shown
<1>2. SwitchesOK'
  BY <1>1, ViewTypes, SameSwitches
<1>3. QED
  BY <1>1, <1>2, ViewTypes, OnlyPages

LEMMA InvChooseFile ==
  ASSUME StudioInv, NEW p \in Page, ChooseFile(p)
  PROVE  StudioInv'
<1>1. /\ library' = library /\ modules' = modules /\ UNCHANGED shown /\ requests' = requests
      /\ Act("imports")
  BY DEF ChooseFile
<1>2. ActsOK'
  BY <1>1, ViewTypes, ActType
<1>3. PICK f \in Files : dialog' = [dialog EXCEPT ![p].file = f, ![p].result = NoResult]
  <2>1. FewFiles \subseteq Files
    BY StudioAssumption
  <2>2. QED
    BY <2>1 DEF ChooseFile
<1> DEFINE w == [dialog[p] EXCEPT !.file = f, !.result = NoResult]
<1>4. dialog[p] \in Window /\ dialog \in [Page -> Window] /\ DialogOK
  BY ViewTypes, DialogTypes
<1>5. NoResult \in Result /\ Shows(NoResult) /\ f \in Chosen
  BY InvTypes, NothingTypes DEF Chosen
<1>6. w \in Window /\ w.result = NoResult
  BY <1>4, <1>5 DEF Window
<1>7. dialog' = [dialog EXCEPT ![p] = w]
  BY <1>3, <1>4
<1> HIDE DEF w
<1>8. DialogOK'
  BY <1>4, <1>5, <1>6, <1>7, DialogChanges
<1>9. QED
  BY <1>1, <1>2, <1>8, InvTypes, OnlyDialog

LEMMA InvImportFile ==
  ASSUME StudioInv, NEW p \in Page, ImportFile(p)
  PROVE  StudioInv'
<1> DEFINE n == Len(library)
           q == Request(p, "import", "import")
           a == [q EXCEPT !.file = dialog[p].file]
           w == [dialog[p] EXCEPT !.busy = TRUE]
<1>1. /\ library' = library /\ modules' = modules /\ UNCHANGED shown /\ acts' = acts
      /\ requests' = requests \cup {a} /\ dialog' = [dialog EXCEPT ![p].busy = TRUE]
      /\ dialog[p].file # NoFile
  BY DEF ImportFile, Ask
<1>2. /\ dialog[p] \in Window /\ dialog \in [Page -> Window] /\ DialogOK /\ ActsOK
      /\ Shows(dialog[p].result) /\ dialog[p].file \in Chosen /\ n \in Nat
  BY ViewTypes, DialogTypes, InvTypes
<1>3. DialogOK'
  <2>1. w \in Window /\ w.result = dialog[p].result
    BY <1>2 DEF Window
  <2>2. dialog' = [dialog EXCEPT ![p] = w]
    BY <1>1, <1>2
  <2> HIDE DEF w
  <2>3. QED
    BY <1>2, <2>1, <2>2, DialogChanges
<1>4. "import" \in Jobs /\ "import" \in Calls
  BY DEF Jobs, Calls
<1>5. q \in Asks(n) /\ q.job = "import" /\ q.call = "import" /\ q.stage = "asked"
  BY <1>2, <1>4, RequestIs
<1> HIDE DEF q
<1>6. /\ a \in Asks(n) /\ a.job = "import" /\ a.call = "import" /\ a.stage = "asked"
      /\ a.file = dialog[p].file
  BY <1>2, <1>5, FiledIs
<1> HIDE DEF a
<1>7. a.file \in Files
  BY <1>1, <1>2, <1>6 DEF Chosen
<1>8. Carries(a)
  BY <1>6, <1>7 DEF Carries
<1>9. \A r \in requests' : r \in Asks(n) /\ Carries(r)
  BY <1>1, <1>6, <1>8, InvTypes
<1>10. ActsOK'
  BY <1>1, <1>2 DEF ActsOK
<1>11. QED
  BY <1>1, <1>3, <1>9, <1>10, OnlyDialog

LEMMA InvFileImported ==
  ASSUME StudioInv, NEW r \in requests, FileImported(r), UNCHANGED <<modules, library, acts>>
  PROVE  StudioInv'
<1> DEFINE n == Len(library)
           p == r.page
           result == IF r.stage = "served"
                       THEN [status |-> "preview", file |-> r.file, steps |-> r.steps]
                       ELSE dialog[p].result
           w == [dialog[p] EXCEPT !.busy = FALSE, !.result = result]
<1>1. /\ library' = library /\ modules' = modules /\ UNCHANGED shown /\ acts' = acts
      /\ requests' = requests \ {r} /\ r.call = "import"
      /\ dialog' = [dialog EXCEPT ![p].busy = FALSE, ![p].result = result]
  BY DEF FileImported
<1>2. /\ r \in Asks(n) /\ Carries(r) /\ p \in Page /\ r.file \in Chosen /\ r.steps \in Seq(Step)
  BY InvTypes, Fields
<1>3. /\ dialog[p] \in Window /\ dialog \in [Page -> Window] /\ DialogOK /\ ActsOK
      /\ Shows(dialog[p].result) /\ dialog[p].result \in Result
  BY <1>2, ViewTypes, DialogTypes
<1>4. result \in Result /\ Shows(result)
  <2>1. CASE r.stage = "served"
    <3>1. Made(r.steps, r.file)
      BY <1>1, <1>2, <2>1 DEF Carries
    <3>2. QED
      BY <1>2, <2>1, <3>1 DEF Result, Shows
  <2>2. CASE r.stage # "served"
    BY <1>3, <2>2
  <2>3. QED
    BY <2>1, <2>2
<1> HIDE DEF result, p
<1>5. DialogOK'
  <2>1. w \in Window /\ w.result = result
    BY <1>3, <1>4 DEF Window
  <2>2. dialog' = [dialog EXCEPT ![p] = w]
    BY <1>1, <1>2, <1>3
  <2> HIDE DEF w
  <2>3. QED
    BY <1>2, <1>3, <1>4, <2>1, <2>2, DialogChanges
<1>6. ActsOK'
  BY <1>1, <1>3 DEF ActsOK
<1>7. \A q \in requests' : q \in Asks(n) /\ Carries(q)
  BY <1>1, InvTypes
<1>8. QED
  BY <1>1, <1>5, <1>6, <1>7, OnlyDialog

LEMMA InvAccept ==
  ASSUME StudioInv, NEW p \in Page, Accept(p)
  PROVE  StudioInv'
<1> DEFINE n == Len(library)
           q == Request(p, "accept", "save")
           file == dialog[p].result.file
           steps == dialog[p].result.steps
           a == [q EXCEPT !.file = file, !.steps = steps]
           w == [dialog[p] EXCEPT !.busy = TRUE]
<1>1. /\ library' = library /\ modules' = modules /\ UNCHANGED shown /\ Act("imports")
      /\ requests' = requests \cup {a} /\ dialog' = [dialog EXCEPT ![p].busy = TRUE]
      /\ dialog[p].result.status = "preview"
  BY DEF Accept, Save, Ask
<1>2. /\ dialog[p] \in Window /\ dialog \in [Page -> Window] /\ DialogOK /\ ActsOK
      /\ Shows(dialog[p].result) /\ dialog[p].result \in Result /\ n \in Nat
  BY ViewTypes, DialogTypes, InvTypes
<1>3. Made(steps, file) /\ file \in Chosen /\ steps \in Seq(Step)
  BY <1>1, <1>2 DEF Shows, Result
<1>4. DialogOK'
  <2>1. w \in Window /\ w.result = dialog[p].result
    BY <1>2 DEF Window
  <2>2. dialog' = [dialog EXCEPT ![p] = w]
    BY <1>1, <1>2
  <2> HIDE DEF w
  <2>3. QED
    BY <1>2, <2>1, <2>2, DialogChanges
<1>5. "accept" \in Jobs /\ "save" \in Calls
  BY DEF Jobs, Calls
<1>6. q \in Asks(n) /\ q.job = "accept" /\ q.call = "save" /\ q.stage = "asked"
  BY <1>2, <1>5, RequestIs
<1> HIDE DEF q, file, steps
<1>7. /\ a \in Asks(n) /\ a.job = "accept" /\ a.call = "save" /\ a.stage = "asked"
      /\ a.file = file /\ a.steps = steps
  <2> DEFINE b == [q EXCEPT !.file = file]
  <2>1. /\ b \in Asks(n) /\ b.job = "accept" /\ b.call = "save" /\ b.stage = "asked"
        /\ b.file = file
    BY <1>3, <1>6, FiledIs
  <2>2. a = [b EXCEPT !.steps = steps]
    OBVIOUS
  <2> HIDE DEF a, b
  <2> DEFINE c == [b EXCEPT !.steps = steps]
  <2>3. /\ c \in Asks(n) /\ c.job = "accept" /\ c.call = "save" /\ c.stage = "asked"
        /\ c.file = file /\ c.steps = steps
    BY <1>3, <1>6, <2>1, SteppedIs
  <2> HIDE DEF c
  <2>4. a = c
    BY <2>2 DEF c
  <2>5. QED
    BY <2>3, <2>4
<1> HIDE DEF a
<1>8. Sound(steps)
  BY <1>3, MadeIs, GoodSounds
<1>9. Carries(a)
  BY <1>3, <1>7, <1>8 DEF Carries
<1>10. \A r \in requests' : r \in Asks(n) /\ Carries(r)
  BY <1>1, <1>7, <1>9, InvTypes
<1>11. ActsOK'
  BY <1>1, <1>2, ActType
<1>12. QED
  BY <1>1, <1>4, <1>10, <1>11, OnlyDialog

LEMMA InvSaveEditor ==
  ASSUME StudioInv, NEW p \in Page, SaveEditor(p)
  PROVE  StudioInv'
<1> DEFINE n == Len(library)
           q == Request(p, "editor", "save")
           file == dialog[p].result.file
           steps == dialog[p].draft
           a == [q EXCEPT !.file = file, !.steps = steps]
           w == [dialog[p] EXCEPT !.saving = TRUE]
<1>1. /\ library' = library /\ modules' = modules /\ UNCHANGED shown /\ Act("imports")
      /\ dialog' = [dialog EXCEPT ![p].saving = TRUE]
      /\ dialog[p].result.status = "editing" /\ EditorTakes(steps)
  BY DEF SaveEditor
<1>2. requests' = requests \cup {a}
  BY DEF SaveEditor, Save, Ask
<1>3. /\ dialog[p] \in Window /\ dialog \in [Page -> Window] /\ DialogOK /\ ActsOK
      /\ Shows(dialog[p].result) /\ dialog[p].result \in Result /\ n \in Nat
      /\ steps \in Seq(Step)
  BY ViewTypes, DialogTypes, InvTypes
<1>4. Made(dialog[p].result.steps, file) /\ file \in Chosen
  BY <1>1, <1>3 DEF Shows, Result
<1>5. Sound(steps) /\ Made(Imported(file), file)
  BY <1>1, <1>3, <1>4, DraftsSound DEF Made
<1>6. DialogOK'
  <2>1. w \in Window /\ w.result = dialog[p].result
    BY <1>3 DEF Window
  <2>2. dialog' = [dialog EXCEPT ![p] = w]
    BY <1>1, <1>3
  <2> HIDE DEF w
  <2>3. QED
    BY <1>3, <2>1, <2>2, DialogChanges
<1>7. "editor" \in Jobs /\ "save" \in Calls
  BY DEF Jobs, Calls
<1>8. q \in Asks(n) /\ q.job = "editor" /\ q.call = "save" /\ q.stage = "asked"
  BY <1>3, <1>7, RequestIs
<1> HIDE DEF q, file, steps
<1>9. /\ a \in Asks(n) /\ a.job = "editor" /\ a.call = "save" /\ a.stage = "asked"
      /\ a.file = file /\ a.steps = steps
  <2> DEFINE b == [q EXCEPT !.file = file]
  <2>1. /\ b \in Asks(n) /\ b.job = "editor" /\ b.call = "save" /\ b.stage = "asked"
        /\ b.file = file
    BY <1>4, <1>5, <1>8, FiledIs
  <2>2. a = [b EXCEPT !.steps = steps]
    OBVIOUS
  <2> HIDE DEF a, b
  <2> DEFINE c == [b EXCEPT !.steps = steps]
  <2>3. /\ c \in Asks(n) /\ c.job = "editor" /\ c.call = "save" /\ c.stage = "asked"
        /\ c.file = file /\ c.steps = steps
    BY <1>3, <1>8, <2>1, SteppedIs
  <2> HIDE DEF c
  <2>4. a = c
    BY <2>2 DEF c
  <2>5. QED
    BY <2>3, <2>4
<1> HIDE DEF a
<1>10. Carries(a)
  BY <1>5, <1>9 DEF Carries
<1>11. \A r \in requests' : r \in Asks(n) /\ Carries(r)
  BY <1>2, <1>9, <1>10, InvTypes
<1>12. ActsOK'
  BY <1>1, <1>3, ActType
<1>13. QED
  BY <1>1, <1>6, <1>11, <1>12, OnlyDialog

LEMMA InvAccepted ==
  ASSUME StudioInv, NEW r \in requests, Accepted(r), UNCHANGED <<modules, library, acts>>
  PROVE  StudioInv'
<1> DEFINE n == Len(library)
           p == r.page
           file == IF r.stage = "served" THEN NoFile ELSE dialog[p].file
           result == IF r.stage = "served"
                       THEN [status |-> "saved", file |-> r.file, steps |-> r.steps]
                       ELSE dialog[p].result
           w == [dialog[p] EXCEPT !.busy = FALSE, !.file = file, !.result = result]
<1>1. /\ library' = library /\ modules' = modules /\ UNCHANGED shown /\ acts' = acts
      /\ requests' = requests \ {r} /\ r.job = "accept"
      /\ dialog' = [dialog EXCEPT ![p].busy = FALSE, ![p].file = file, ![p].result = result]
  BY DEF Accepted
<1>2. /\ r \in Asks(n) /\ Carries(r) /\ p \in Page /\ r.file \in Chosen /\ r.steps \in Seq(Step)
  BY InvTypes, Fields
<1>3. /\ dialog[p] \in Window /\ dialog \in [Page -> Window] /\ DialogOK /\ ActsOK
      /\ Shows(dialog[p].result) /\ dialog[p].result \in Result /\ dialog[p].file \in Chosen
  BY <1>2, ViewTypes, DialogTypes
<1>4. result \in Result /\ Shows(result)
  <2>1. CASE r.stage = "served"
    <3>1. Made(r.steps, r.file)
      BY <1>1, <1>2 DEF Carries
    <3>2. QED
      BY <1>2, <2>1, <3>1 DEF Result, Shows
  <2>2. CASE r.stage # "served"
    BY <1>3, <2>2
  <2>3. QED
    BY <2>1, <2>2
<1>5. file \in Chosen
  BY <1>3 DEF Chosen
<1> HIDE DEF result, file, p
<1>6. DialogOK'
  <2>1. w \in Window /\ w.result = result
    BY <1>3, <1>4, <1>5 DEF Window
  <2>2. dialog' = [dialog EXCEPT ![p] = w]
    BY <1>1, <1>2, <1>3
  <2> HIDE DEF w
  <2>3. QED
    BY <1>2, <1>3, <1>4, <2>1, <2>2, DialogChanges
<1>7. ActsOK'
  BY <1>1, <1>3 DEF ActsOK
<1>8. \A q \in requests' : q \in Asks(n) /\ Carries(q)
  BY <1>1, InvTypes
<1>9. QED
  BY <1>1, <1>6, <1>7, <1>8, OnlyDialog

LEMMA InvEditorSaved ==
  ASSUME StudioInv, NEW r \in requests, EditorSaved(r), UNCHANGED <<modules, library, acts>>
  PROVE  StudioInv'
<1> DEFINE n == Len(library)
           p == r.page
           preview == [status |-> "preview", file |-> r.file, steps |-> Imported(r.file)]
           result == IF r.stage = "served" THEN preview ELSE dialog[p].result
           draft == IF r.stage = "served" THEN Refused ELSE dialog[p].draft
           w == [dialog[p] EXCEPT !.saving = FALSE, !.draft = draft, !.result = result]
<1>1. /\ library' = library /\ modules' = modules /\ UNCHANGED shown /\ acts' = acts
      /\ requests' = requests \ {r} /\ r.job = "editor"
      /\ dialog' = [dialog EXCEPT ![p].saving = FALSE, ![p].draft = draft, ![p].result = result]
  BY DEF EditorSaved
<1>2. r \in Asks(n) /\ Carries(r) /\ p \in Page /\ r.file \in Chosen
  BY InvTypes, Fields
<1>3. /\ dialog[p] \in Window /\ dialog \in [Page -> Window] /\ DialogOK /\ ActsOK
      /\ Shows(dialog[p].result) /\ dialog[p].result \in Result /\ draft \in Seq(Step)
  BY <1>2, ViewTypes, DialogTypes, InvTypes, NothingTypes
<1>4. result \in Result /\ Shows(result)
  <2>1. Made(Imported(r.file), r.file)
    BY <1>1, <1>2 DEF Carries
  <2>2. Imported(r.file) \in Seq(Step)
    BY <2>1, MadeIs
  <2>3. preview \in Result /\ Shows(preview)
    BY <1>2, <2>1, <2>2 DEF Result, Shows
  <2> HIDE DEF preview
  <2>4. QED
    BY <1>3, <2>3
<1> HIDE DEF result, draft, p
<1>5. DialogOK'
  <2>1. w \in Window /\ w.result = result
    BY <1>3, <1>4 DEF Window
  <2>2. dialog' = [dialog EXCEPT ![p] = w]
    BY <1>1, <1>2, <1>3
  <2> HIDE DEF w
  <2>3. QED
    BY <1>2, <1>3, <1>4, <2>1, <2>2, DialogChanges
<1>6. ActsOK'
  BY <1>1, <1>3 DEF ActsOK
<1>7. \A q \in requests' : q \in Asks(n) /\ Carries(q)
  BY <1>1, InvTypes
<1>8. QED
  BY <1>1, <1>5, <1>6, <1>7, OnlyDialog

\* What is shown stays, whatever the dialog calls it.
LEMMA Renamed ==
  ASSUME NEW result \in Result, result.status # "none", Shows(result),
         NEW status \in {"preview", "editing"}
  PROVE  [result EXCEPT !.status = status] \in Result /\ Shows([result EXCEPT !.status = status])
<1> DEFINE s == [result EXCEPT !.status = status]
<1>1. s \in Result /\ s.file = result.file /\ s.steps = result.steps
  BY DEF Result
<1> HIDE DEF s
<1>2. Shows(s)
  BY <1>1 DEF Shows
<1>3. QED
  BY <1>1, <1>2 DEF s

LEMMA InvEditing ==
  ASSUME StudioInv, NEW p \in Page, EditBeforeSaving(p) \/ CloseEditor(p) \/ EditDraft(p)
  PROVE  StudioInv'
<1> DEFINE old == dialog[p]
<1>1. library' = library /\ modules' = modules /\ UNCHANGED shown /\ requests' = requests
  BY DEF EditBeforeSaving, CloseEditor, EditDraft
<1>2. /\ old \in Window /\ dialog \in [Page -> Window] /\ DialogOK /\ ActsOK
      /\ Shows(old.result) /\ old.result \in Result /\ NoFile \in Chosen
      /\ old.draft \in Seq(Step) /\ Refused \in Seq(Step)
  BY ViewTypes, DialogTypes, InvTypes, NothingTypes
<1>3. DialogOK'
  <2>1. CASE EditBeforeSaving(p)
    <3> DEFINE result == [old.result EXCEPT !.status = "editing"]
               w == [old EXCEPT !.file = NoFile, !.result = result, !.draft = old.result.steps]
    <3>1. dialog' = [dialog EXCEPT ![p].file = NoFile, ![p].result.status = "editing",
                                   ![p].draft = old.result.steps]
      BY <2>1 DEF EditBeforeSaving
    <3>2. result \in Result /\ Shows(result) /\ old.result.steps \in Seq(Step)
      BY <1>2, <2>1, Renamed DEF EditBeforeSaving, Result
    <3>3. dialog' = [dialog EXCEPT ![p] = w]
      BY <1>2, <3>1 DEF Window
    <3> HIDE DEF result
    <3>4. w \in Window /\ w.result = result
      BY <1>2, <3>2 DEF Window
    <3> HIDE DEF w
    <3>5. QED
      BY <1>2, <3>2, <3>3, <3>4, DialogChanges
  <2>2. CASE CloseEditor(p)
    <3> DEFINE result == [old.result EXCEPT !.status = "preview"]
               w == [old EXCEPT !.result = result, !.draft = Refused]
    <3>1. dialog' = [dialog EXCEPT ![p].result.status = "preview", ![p].draft = Refused]
      BY <2>2 DEF CloseEditor
    <3>2. result \in Result /\ Shows(result)
      BY <1>2, <2>2, Renamed DEF CloseEditor
    <3>3. dialog' = [dialog EXCEPT ![p] = w]
      BY <1>2, <3>1
    <3> HIDE DEF result
    <3>4. w \in Window /\ w.result = result
      BY <1>2, <3>2 DEF Window
    <3> HIDE DEF w
    <3>5. QED
      BY <1>2, <3>2, <3>3, <3>4, DialogChanges
  <2>3. CASE EditDraft(p)
    <3>1. PICK draft \in Edits(old.draft) : dialog' = [dialog EXCEPT ![p].draft = draft]
      BY <2>3 DEF EditDraft
    <3> DEFINE w == [old EXCEPT !.draft = draft]
    <3>2. draft \in Seq(Step)
      BY <1>2, <3>1, EditsTypes
    <3>3. dialog' = [dialog EXCEPT ![p] = w]
      BY <1>2, <3>1
    <3>4. w \in Window /\ w.result = old.result
      BY <1>2, <3>2 DEF Window
    <3> HIDE DEF w
    <3>5. QED
      BY <1>2, <3>3, <3>4, DialogChanges
  <2>4. QED
    BY <2>1, <2>2, <2>3
<1>4. ActsOK'
  <2>1. CASE EditBeforeSaving(p) \/ EditDraft(p)
    BY <1>2, <2>1, ActType DEF EditBeforeSaving, EditDraft
  <2>2. CASE CloseEditor(p)
    BY <1>2, <2>2 DEF CloseEditor, ActsOK
  <2>3. QED
    BY <2>1, <2>2
<1>5. QED
  BY <1>1, <1>3, <1>4, InvTypes, OnlyDialog

LEMMA InvDiscard ==
  ASSUME StudioInv, NEW p \in Page, Discard(p)
  PROVE  StudioInv'
<1> DEFINE w == [dialog[p] EXCEPT !.result = NoResult, !.file = NoFile]
<1>1. /\ library' = library /\ modules' = modules /\ UNCHANGED shown /\ requests' = requests
      /\ acts' = acts /\ dialog' = [dialog EXCEPT ![p].result = NoResult, ![p].file = NoFile]
  BY DEF Discard
<1>2. /\ dialog[p] \in Window /\ dialog \in [Page -> Window] /\ DialogOK /\ ActsOK
      /\ NoFile \in Chosen /\ NoResult \in Result /\ Shows(NoResult)
  BY ViewTypes, DialogTypes, InvTypes, NothingTypes
<1>3. w \in Window /\ w.result = NoResult
  BY <1>2 DEF Window
<1>4. dialog' = [dialog EXCEPT ![p] = w]
  BY <1>1, <1>2
<1> HIDE DEF w
<1>5. DialogOK'
  BY <1>2, <1>3, <1>4, DialogChanges
<1>6. ActsOK'
  BY <1>1, <1>2 DEF ActsOK
<1>7. QED
  BY <1>1, <1>5, <1>6, InvTypes, OnlyDialog

-----------------------------------------------------------------------------
(* Every step *)

LEMMA InvHandle ==
  ASSUME StudioInv, NEW r \in requests, Handle(r)
  PROVE  StudioInv'
<1>1. UNCHANGED <<modules, library, acts>>
  BY DEF Handle
<1>2. \/ Refreshed(r) \/ Fetched(r) \/ Uploaded(r) \/ Recolored(r) \/ Ignored(r)
      \/ Deleted(r) \/ FileImported(r) \/ Accepted(r) \/ EditorSaved(r)
  BY DEF Handle
<1>3. QED
  BY <1>1, <1>2, InvRefreshed, InvFetched, InvUploaded, InvRecolored, InvIgnored, InvFileImported,
     InvAccepted, InvEditorSaved

LEMMA InvUser ==
  ASSUME StudioInv, NEW p \in Page, UserAct(p)
  PROVE  StudioInv'
<1>1. CASE \E id \in Id : PickForAll(p, id) \/ Delete(p, id) \/ \E ip \in Ip : PickSequence(p, ip, id)
  BY <1>1, InvPicks
<1>2. CASE ToggleColors(p)
  BY <1>2, InvToggle
<1>3. CASE \/ ChooseFile(p) \/ ImportFile(p) \/ Accept(p) \/ Discard(p)
           \/ EditBeforeSaving(p) \/ EditDraft(p) \/ CloseEditor(p) \/ SaveEditor(p)
  BY <1>3, InvChooseFile, InvImportFile, InvAccept, InvEditing, InvSaveEditor, InvDiscard
<1>4. QED
  BY <1>1, <1>2, <1>3 DEF UserAct

LEMMA InvNext == StudioInv /\ [Next]_vars => StudioInv'
<1> SUFFICES ASSUME StudioInv, [Next]_vars PROVE StudioInv'
  OBVIOUS
<1>1. ASSUME NEW ip \in Ip, Leave(ip) \/ Return(ip) \/ Forget(ip) PROVE StudioInv'
  BY <1>1, InvModules
<1>2. ASSUME NEW r \in requests, Serve(r) \/ Handle(r) \/ Lose(r) PROVE StudioInv'
  BY <1>2, InvServe, InvHandle, InvLose
<1>3. ASSUME NEW p \in Page, Poll(p) \/ UserAct(p) PROVE StudioInv'
  BY <1>3, InvPoll, InvUser
<1>4. CASE UNCHANGED vars
  <2>1. /\ modules' = modules /\ library' = library /\ UNCHANGED shown /\ dialog' = dialog
        /\ requests' = requests /\ acts' = acts
    BY <1>4 DEF vars
  <2>2. ModulesOK' /\ ActsOK'
    BY <2>1 DEF StudioInv, ModulesOK, ActsOK
  <2>3. QED
    BY <2>1, <2>2, OnlyModules
<1>5. QED
  BY <1>1, <1>2, <1>3, <1>4 DEF Next

LEMMA Invariance == Spec => []StudioInv
<1>1. QED
  BY InvInit, InvNext, PTL DEF Spec

\* Every variable of the page and of the controller holds what its declaration says: no
\* answer, in whatever order it comes, points to a sequence that never was.
THEOREM StudioTypes == Spec => []TypeOK
<1>1. StudioInv => TypeOK
  <2> SUFFICES ASSUME StudioInv PROVE TypeOK
    OBVIOUS
  <2>1. modules \in Entries(Len(library))
    BY DEF StudioInv, ModulesOK
  <2>2. \A id \in Id : Steps(id) = Refused \/ LibraryTakes(Steps(id))
    BY Kept DEF Sound
  <2>3. /\ list \in [Page -> Entries(Len(library))]
        /\ selected \in [Page -> Pointers(Len(library))]
        /\ keyboard \in [Page -> Pointers(Len(library))]
        /\ busy \in [Page -> BOOLEAN] /\ colorMode \in [Page -> {"default", "colorblind"}]
        /\ DialogOK /\ acts \in [modules : Nat, imports : Nat, files : {"any", "few"}]
    BY ViewTypes DEF ActsOK
  <2>4. \A p \in Page : dialog[p].result.status \in {"none", "preview", "editing", "saved"}
    <3>1. ASSUME NEW p \in Page PROVE dialog[p].result \in Result
      BY <2>3, DialogTypes
    <3>2. QED
      BY <3>1 DEF Result
  <2>5. \A r \in requests : r.stage \in {"asked", "served", "refused", "failed"} /\ r.ips \subseteq Ip
    BY InvTypes, Fields DEF Stages
  <2>6. \A p \in Page :
          {selected[p][ip] : ip \in Ip} \cup {keyboard[p][ip] : ip \in Ip} \subseteq Ref(Len(library))
    BY <2>3 DEF Pointers
  <2>7. Ref(Len(library)) = Id \cup {None}
    BY DEF Ref, Id
  <2>8. QED
    BY <2>1, <2>2, <2>3, <2>4, <2>5, <2>6, <2>7 DEF TypeOK, Entries
<1>2. QED
  BY <1>1, Invariance, PTL

\* What users import, edit and save can be uploaded (services/midi_import.js, the editor of
\* App.jsx, the routes of the library, and the parser of the firmware), for every keyboard,
\* every file and whatever is entered in the editor: imports fit two modules, and all of
\* the library the longest chain.
THEOREM LibraryCanPlay == Spec => []LibraryPlays
<1>1. StudioInv => LibraryPlays
  <2> SUFFICES ASSUME StudioInv PROVE LibraryPlays
    OBVIOUS
  <2>1. ASSUME NEW p \in Page, dialog[p].result.status # "none"
        PROVE  LibraryTakes(dialog[p].result.steps) /\ FirmwareTakes(dialog[p].result.steps, KEYS)
    <3>1. Shows(dialog[p].result)
      BY ViewTypes, DialogTypes
    <3>2. Good(dialog[p].result.steps)
      BY <2>1, <3>1, MadeIs DEF Shows
    <3>3. QED
      BY <3>2 DEF Good
  <2>2. ASSUME NEW id \in Id, Held(id) PROVE FirmwareTakes(Steps(id), MAX_TOTAL_KEYS)
    BY <2>2, Kept DEF Held, Sound
  <2>3. QED
    BY <2>1, <2>2 DEF LibraryPlays
<1>2. QED
  BY <1>1, Invariance, PTL

\* A file is refused only if nothing in it fits, and what is shown is faithful to the file
\* it names, whichever file has been chosen since and in whatever order answers come.
THEOREM ImportsFaithful == Spec => []ImportFaithful
<1>1. StudioInv => ImportFaithful
  <2> SUFFICES ASSUME StudioInv PROVE ImportFaithful
    OBVIOUS
  <2>1. ASSUME NEW r \in requests, r.call = "import", r.stage = "served"
        PROVE  Faithful(r.steps, r.file)
    <3>1. Made(r.steps, r.file)
      BY <2>1, InvTypes DEF Carries
    <3>2. QED
      BY <3>1, MadeIs
  <2>2. ASSUME NEW r \in requests, r.stage = "refused"
        PROVE  ~Fits(AllNotes(r.file)) /\ \A t \in DOMAIN r.file : ~Fits(r.file[t])
    <3>1. r.file \in Files /\ Imported(r.file) = Refused
      BY <2>2, InvTypes DEF Carries
    <3>2. r.file \in Seq(Seq(Note))
      BY <3>1, FilesTypes
    <3>3. QED
      BY <3>1, <3>2, RefusedRightly
  <2>3. ASSUME NEW p \in Page, dialog[p].result.status # "none"
        PROVE  Faithful(dialog[p].result.steps, dialog[p].result.file)
    <3>1. Shows(dialog[p].result)
      BY ViewTypes, DialogTypes
    <3>2. QED
      BY <2>3, <3>1, MadeIs DEF Shows
  <2>4. QED
    BY <2>1, <2>2, <2>3 DEF ImportFaithful
<1>2. QED
  BY <1>1, Invariance, PTL

=============================================================================
