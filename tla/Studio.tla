------------------------------- MODULE Studio --------------------------------
(***************************************************************************)
(* The web application: open pages, the requests they have under way, and  *)
(* what the controller keeps for them.  Requests of a page are served, and *)
(* their answers handled, in any order.  An upload is one step here, as in *)
(* AtomicUpload; ids are told from none, which is not 0 but as little true *)
(* in JavaScript; colours and names are left out.                           *)
(***************************************************************************)
EXTENDS MidiImport

CONSTANTS
  Page,      \* open pages
  Ip,        \* modules, all known to the controller when the pages open
  Files,     \* MIDI files: sequences of tracks
  Demos,     \* the sequences in the library at the start, from id 0 on
  Entered,   \* bound: the steps that users enter in the editor
  FewFiles,  \* bound: the files that users choose in longer sessions
  MaxPolls,  \* bound: polls, and fetches they lead to, under way when a page polls
  Sessions   \* bound: numbers of acts, of users, modules and the network, that concern
             \* modules, and of those that concern imports of any or of few files

ASSUME StudioAssumption ==
  /\ MaxPolls \in Nat
  /\ Sessions \subseteq [modules : Nat, imports : Nat, files : {"any", "few"}]
  /\ Files \subseteq Seq(Seq(Note)) /\ FewFiles \subseteq Files /\ << >> \notin Files
  /\ Demos \in Seq(Seq([keys : Seq(Nat), duration : Nat]))
  /\ \A n \in DOMAIN Demos : LibraryTakes(Demos[n]) /\ FirmwareTakes(Demos[n], MAX_TOTAL_KEYS)
  /\ \A step \in Entered : /\ step.keys \in Seq(0 .. MAX_TOTAL_KEYS - 1)
                           /\ step = [keys |-> step.keys, duration |-> step.duration]
                           /\ Len(step.keys) \in 1 .. MAX_KEYS_PER_STEP /\ step.duration \in Nat

VARIABLES
  modules,   \* controller: per module connected and currentSequenceId, or None
  library,   \* controller: the steps of every id given so far, << >> once deleted
  list,      \* page: modulesList
  selected,  \* page: chainSequences, per module, or None
  keyboard,  \* page: sequenceId in chainSeqData, per module, or None
  busy,      \* page: dbActionBusy
  colorMode, \* page
  dialog,    \* page: midiFile, midiImportBusy, editorSaving, editorSteps, midiImportResult
  requests,  \* requests under way, of all pages
  acts       \* acts left

shown  == <<list, selected, keyboard, busy, colorMode>>
vars   == <<modules, library, shown, dialog, requests, acts>>

\* The seeded demos have the ids 0, 1, ..., and what is saved the ones after them.
None == -1
Id == 0 .. Len(library) - 1
Steps(id) == library[id + 1]
Held(id) == id \in Id /\ Steps(id) # Refused

\* An id in a condition: neither null nor 0.
Truthy(id) == id \notin {None, 0}

Connected(mods) == {ip \in Ip : mods[ip].connected}

NoFile == << >>
NoResult == [status |-> "none", file |-> NoFile, steps |-> Refused]
NoModules == [ip \in Ip |-> [connected |-> FALSE, current |-> None]]

\* What page p asks for a job: the job goes on with the answer.
Request(p, job, call) ==
  [page |-> p, job |-> job, call |-> call, stage |-> "asked", ips |-> {}, seq |-> None,
   list |-> NoModules, file |-> NoFile, steps |-> Refused]

About(r, ips, id) == [r EXCEPT !.ips = ips, !.seq = id]

Act(about) == acts[about] > 0 /\ acts' = [acts EXCEPT ![about] = @ - 1]

-----------------------------------------------------------------------------
(* Modules come and go (Registry says how), with the sequence they are marked with *)

Leave(ip) ==
  /\ Act("modules")
  /\ modules[ip].connected
  /\ modules' = [modules EXCEPT ![ip].connected = FALSE]
  /\ UNCHANGED <<library, shown, dialog, requests>>

\* registerModule() keeps currentSequenceId || null.
Return(ip) ==
  /\ Act("modules")
  /\ ~modules[ip].connected
  /\ modules' = [modules EXCEPT ![ip].connected = TRUE,
                                 ![ip].current = IF Truthy(@) THEN @ ELSE None]
  /\ UNCHANGED <<library, shown, dialog, requests>>

\* The clean-up deletes the entry of a module that has been away, which ends what an
\* upload has begun and needs no bound of its own.
Forget(ip) ==
  /\ ~modules[ip].connected
  /\ modules[ip].current # None
  /\ modules' = [modules EXCEPT ![ip].current = None]
  /\ UNCHANGED <<library, shown, dialog, requests, acts>>

-----------------------------------------------------------------------------
(* The controller answers *)

\* That a poll or an effect has failed makes no difference to the page.
Quiet(job) == job \in {"poll", "effect"}

Dialogs(call) == call \in {"import", "save"}

Answer(r, answer) ==
  requests' = (requests \ {r})
                \cup (IF Quiet(r.job) /\ answer.stage = "failed" THEN {} ELSE {answer})
Served(r) == [r EXCEPT !.stage = "served"]
Failed(r) == [r EXCEPT !.stage = "failed"]

ServeModules(r) ==
  /\ r.call = "modules"
  /\ Answer(r, [Served(r) EXCEPT !.list = modules])
  /\ UNCHANGED <<modules, library>>

ServeSequence(r) ==
  /\ r.call = "sequence"
  /\ Answer(r, IF Held(r.seq) THEN Served(r) ELSE Failed(r))
  /\ UNCHANGED <<modules, library>>

\* An upload to all goes to the modules that are connected now, and marks none of them
\* unless every one has taken it.
Targets(r) == IF r.job = "all" THEN Connected(modules) ELSE r.ips

ServeUpload(r) ==
  /\ r.call = "upload"
  /\ \/ /\ Held(r.seq)
        /\ Targets(r) \subseteq Connected(modules)
        /\ Answer(r, Served(r))
        /\ modules' = [ip \in Ip |-> IF ip \in Targets(r)
                                       THEN [modules[ip] EXCEPT !.current = r.seq]
                                       ELSE modules[ip]]
     \/ /\ Answer(r, Failed(r))
        /\ UNCHANGED modules
  /\ UNCHANGED library

ServeImport(r) ==
  /\ r.call = "import"
  /\ LET steps == Imported(r.file) IN
     Answer(r, IF steps = Refused THEN [r EXCEPT !.stage = "refused"]
                                  ELSE [Served(r) EXCEPT !.steps = steps])
  /\ UNCHANGED <<modules, library>>

\* Without an id the steps become a new sequence.
ServeSave(r) ==
  /\ r.call = "save"
  /\ IF LibraryTakes(r.steps)
       THEN library' = Append(library, r.steps) /\ Answer(r, Served(r))
       ELSE Answer(r, Failed(r)) /\ UNCHANGED library
  /\ UNCHANGED modules

ServeDelete_Reused(r) ==
  /\ r.call = "delete"
  /\ library' = IF r.seq = Len(library) - 1 THEN SubSeq(library, 1, r.seq)
                 ELSE [library EXCEPT ![r.seq + 1] = Refused]
  /\ Answer(r, IF Held(r.seq) THEN Served(r) ELSE Failed(r))
  /\ UNCHANGED modules

\* An id is not given twice.
ServeDelete(r) ==
  /\ r.call = "delete"
  /\ library' = [library EXCEPT ![r.seq + 1] = Refused]
  /\ Answer(r, IF Held(r.seq) THEN Served(r) ELSE Failed(r))
  /\ UNCHANGED modules

Serve(r) ==
  /\ r.stage = "asked"
  /\ \/ ServeModules(r) \/ ServeSequence(r) \/ ServeUpload(r)
     \/ ServeImport(r) \/ ServeSave(r) \/ ServeDelete(r)
  /\ UNCHANGED <<shown, dialog, acts>>

\* The network loses a request, or an answer.
Lose(r) ==
  /\ Act(IF Dialogs(r.call) THEN "imports" ELSE "modules")
  /\ r.stage \in {"asked", "served"}
  /\ Answer(r, Failed(r))
  /\ UNCHANGED <<modules, library, shown, dialog>>

-----------------------------------------------------------------------------
(* The page's view of modules *)

\* setInterval(refreshModules): a poll does not wait for the one before.
Poll(p) ==
  /\ Cardinality({r \in requests : r.page = p /\ Quiet(r.job)}) < MaxPolls
  /\ Request(p, "poll", "modules") \notin requests
  /\ requests' = requests \cup {Request(p, "poll", "modules")}
  /\ UNCHANGED <<modules, library, shown, dialog, acts>>

Pruned(kept, mods) == [ip \in Ip |-> IF ip \in Connected(mods) THEN kept[ip] ELSE None]

\* The effect on modulesList: a module that holds sequence 0 is taken for one without.
Stale_Empty(cached, e) == e.connected /\ Truthy(e.current) /\ cached = None
Stale(cached, e) == e.connected /\ Truthy(e.current) /\ cached # e.current

Fetches(p, cached, mods) ==
  {About(Request(p, "effect", "sequence"), {ip}, mods[ip].current) :
     ip \in {i \in Ip : Stale(cached[i], mods[i])}}

\* The end of a job: its finally block frees the controls.
Frees_OnSuccess(r) == ~Quiet(r.job) /\ r.stage = "served"
Frees(r) == ~Quiet(r.job)

Freed(r) == busy' = [busy EXCEPT ![r.page] = @ /\ ~Frees(r)]

\* refreshModules(), by the timer or as the last call of a job.
Refreshed(r) ==
  /\ r.call = "modules"
  /\ IF r.stage = "served"
       THEN LET cached == Pruned(keyboard[r.page], r.list) IN
            /\ list' = [list EXCEPT ![r.page] = r.list]
            /\ selected' = [selected EXCEPT ![r.page] = Pruned(@, r.list)]
            /\ keyboard' = [keyboard EXCEPT ![r.page] = cached]
            /\ requests' = (requests \ {r}) \cup Fetches(r.page, cached, r.list)
       ELSE requests' = requests \ {r} /\ UNCHANGED <<list, selected, keyboard>>
  /\ Freed(r)
  /\ UNCHANGED <<colorMode, dialog>>

\* fetchAndCacheSeqData(): by the effect, or as the second call of an upload, which goes
\* on whether or not it has succeeded.
Fetched(r) ==
  /\ r.call = "sequence"
  /\ keyboard' = IF r.stage = "served"
                   THEN [keyboard EXCEPT ![r.page] = [ip \in Ip |-> IF ip \in r.ips THEN r.seq ELSE @[ip]]]
                   ELSE keyboard
  /\ requests' = (requests \ {r})
                   \cup (IF r.job = "effect" THEN {} ELSE {Request(r.page, r.job, "modules")})
  /\ UNCHANGED <<list, selected, busy, colorMode, dialog>>

-----------------------------------------------------------------------------
(* Uploads *)

\* uploadSequenceToModule()
PickSequence(p, ip, id) ==
  /\ Act("modules")
  /\ ~busy[p]
  /\ list[p][ip].connected
  /\ busy' = [busy EXCEPT ![p] = TRUE]
  /\ requests' = requests \cup {About(Request(p, "upload", "upload"), {ip}, id)}
  /\ UNCHANGED <<modules, library, list, selected, keyboard, colorMode, dialog>>

\* uploadSequenceToAll(): what it shows later is for the modules listed now.
PickForAll(p, id) ==
  /\ Act("modules")
  /\ ~busy[p]
  /\ busy' = [busy EXCEPT ![p] = TRUE]
  /\ requests' = requests \cup {About(Request(p, "all", "upload"), Connected(list[p]), id)}
  /\ UNCHANGED <<modules, library, list, selected, keyboard, colorMode, dialog>>

Uploaded(r) ==
  /\ r.call = "upload" /\ r.job \in {"upload", "all"}
  /\ IF r.stage = "served"
       THEN /\ selected' = [selected EXCEPT ![r.page] =
                              [ip \in Ip |-> IF ip \in r.ips THEN r.seq ELSE @[ip]]]
            /\ requests' = (requests \ {r})
                             \cup {About(Request(r.page, r.job, "sequence"), r.ips, r.seq)}
            /\ UNCHANGED busy
       ELSE requests' = requests \ {r} /\ Freed(r) /\ UNCHANGED selected
  /\ UNCHANGED <<list, keyboard, colorMode, dialog>>

\* handleColorModeToggle(): every module is sent what the page has selected for it, which
\* is the text of an option, so that "0" counts; even while an upload is under way.
\* (Bound: not twice for one mode at the same time.)
ToggleColors(p) ==
  LET mode == IF colorMode[p] = "default" THEN "colorblind" ELSE "default"
      uploads == {About(Request(p, mode, "upload"), {ip}, selected[p][ip]) :
                    ip \in {i \in Connected(list[p]) : selected[p][i] # None}}
  IN /\ Act("modules")
     /\ \A r \in requests : r.page = p => r.job # mode
     /\ colorMode' = [colorMode EXCEPT ![p] = mode]
     /\ busy' = [busy EXCEPT ![p] = @ \/ uploads # {}]
     /\ requests' = requests \cup uploads
     /\ UNCHANGED <<modules, library, list, selected, keyboard, dialog>>

\* Promise.all(): the first failure ends the job, and nobody waits for the rest.
Recolored(r) ==
  LET others == {o \in requests \ {r} : o.page = r.page /\ o.job = r.job} IN
  /\ r.call = "upload" /\ r.job \in {"default", "colorblind"}
  /\ IF r.stage = "served"
       THEN /\ requests' = IF others = {}
                             THEN (requests \ {r}) \cup {Request(r.page, r.job, "modules")}
                             ELSE requests \ {r}
            /\ UNCHANGED busy
       ELSE /\ requests' = (requests \ (others \cup {r}))
                             \cup {[o EXCEPT !.job = "orphan"] : o \in others}
            /\ Freed(r)
  /\ UNCHANGED <<list, selected, keyboard, colorMode, dialog>>

Ignored(r) ==
  /\ r.job = "orphan"
  /\ requests' = requests \ {r}
  /\ UNCHANGED <<shown, dialog>>

Delete(p, id) ==
  /\ Act("modules")
  /\ busy' = [busy EXCEPT ![p] = TRUE]
  /\ requests' = requests \cup {About(Request(p, "delete", "delete"), {}, id)}
  /\ UNCHANGED <<modules, library, list, selected, keyboard, colorMode, dialog>>

Deleted(r) ==
  /\ r.call = "delete"
  /\ requests' = requests \ {r}
  /\ Freed(r)
  /\ UNCHANGED <<list, selected, keyboard, colorMode, dialog>>

-----------------------------------------------------------------------------
(* The dialog that imports MIDI files *)

Ask(p, r) == requests' = requests \cup {r}

\* The file input is never disabled, except behind the editor.
ChooseFile(p) ==
  /\ Act("imports")
  /\ dialog[p].result.status # "editing"
  /\ \E f \in IF acts.files = "any" THEN Files ELSE FewFiles :
       dialog' = [dialog EXCEPT ![p].file = f, ![p].result = NoResult]
  /\ UNCHANGED <<modules, library, shown, requests>>

ImportFile(p) ==
  /\ ~dialog[p].busy
  /\ dialog[p].file # NoFile
  /\ dialog[p].result.status = "none"
  /\ dialog' = [dialog EXCEPT ![p].busy = TRUE]
  /\ Ask(p, [Request(p, "import", "import") EXCEPT !.file = dialog[p].file])
  /\ UNCHANGED <<modules, library, shown, acts>>

\* What the answer brings is shown, whichever file is chosen by now.
FileImported(r) ==
  /\ r.call = "import"
  /\ dialog' = [dialog EXCEPT
       ![r.page].busy = FALSE,
       ![r.page].result = IF r.stage = "served"
                            THEN [status |-> "preview", file |-> r.file, steps |-> r.steps]
                            ELSE @]
  /\ requests' = requests \ {r}
  /\ UNCHANGED shown

Save(p, job, steps) ==
  Ask(p, [Request(p, job, "save") EXCEPT !.file = dialog[p].result.file, !.steps = steps])

\* acceptMidiImport()
Accept(p) ==
  /\ Act("imports")
  /\ ~dialog[p].busy
  /\ dialog[p].result.status = "preview"
  /\ dialog' = [dialog EXCEPT ![p].busy = TRUE]
  /\ Save(p, "accept", dialog[p].result.steps)
  /\ UNCHANGED <<modules, library, shown>>

\* The answer brings back the result of the click, and takes away the file chosen by now.
Accepted(r) ==
  /\ r.job = "accept"
  /\ dialog' = [dialog EXCEPT
       ![r.page].busy = FALSE,
       ![r.page].file = IF r.stage = "served" THEN NoFile ELSE @,
       ![r.page].result = IF r.stage = "served"
                            THEN [status |-> "saved", file |-> r.file, steps |-> r.steps]
                            ELSE @]
  /\ requests' = requests \ {r}
  /\ UNCHANGED shown

EditBeforeSaving(p) ==
  /\ Act("imports")
  /\ ~dialog[p].busy
  /\ dialog[p].result.status = "preview"
  /\ dialog' = [dialog EXCEPT ![p].file = NoFile, ![p].result.status = "editing",
                              ![p].draft = dialog[p].result.steps]
  /\ UNCHANGED <<modules, library, shown, requests>>

\* Users add steps, change them, leave them out and move them.
Edits(steps) ==
  (IF Len(steps) < MAX_SEQUENCE_LENGTH THEN {Append(steps, step) : step \in Entered} ELSE {})
    \cup {[steps EXCEPT ![n] = step] : n \in DOMAIN steps, step \in Entered}
    \cup {RemoveAt(steps, n) : n \in DOMAIN steps}
    \cup {InsertAt(RemoveAt(steps, from), to, steps[from]) :
            from \in DOMAIN steps, to \in DOMAIN steps}

EditDraft(p) ==
  /\ Act("imports")
  /\ dialog[p].result.status = "editing"
  /\ \E draft \in Edits(dialog[p].draft) : dialog' = [dialog EXCEPT ![p].draft = draft]
  /\ UNCHANGED <<modules, library, shown, requests>>

\* The editor may be closed while it saves.
CloseEditor(p) ==
  /\ dialog[p].result.status = "editing"
  /\ dialog' = [dialog EXCEPT ![p].result.status = "preview", ![p].draft = Refused]
  /\ UNCHANGED <<modules, library, shown, requests, acts>>

\* What saveEditorSequence() lets pass.
EditorTakes(steps) ==
  /\ Len(steps) \in 1 .. MAX_SEQUENCE_LENGTH
  /\ \A n \in DOMAIN steps :
       LET keys == steps[n].keys IN
       /\ Len(keys) \in 1 .. MAX_KEYS_PER_STEP
       /\ \A k \in DOMAIN keys : keys[k] \in 0 .. MAX_TOTAL_KEYS - 1
       /\ Cardinality({keys[k] : k \in DOMAIN keys}) = Len(keys)
       /\ steps[n].duration \in StepDuration

SaveEditor(p) ==
  /\ Act("imports")
  /\ dialog[p].result.status = "editing"
  /\ ~dialog[p].saving
  /\ EditorTakes(dialog[p].draft)
  /\ dialog' = [dialog EXCEPT ![p].saving = TRUE]
  /\ Save(p, "editor", dialog[p].draft)
  /\ UNCHANGED <<modules, library, shown>>

\* The result is set to saved, and then by closeEditor(), which knows it as it was at the
\* click, back to the preview: the import can be accepted once more.
EditorSaved(r) ==
  LET preview == [status |-> "preview", file |-> r.file, steps |-> Imported(r.file)] IN
  /\ r.job = "editor"
  /\ dialog' = [dialog EXCEPT ![r.page].saving = FALSE,
                              ![r.page].draft = IF r.stage = "served" THEN Refused ELSE @,
                              ![r.page].result = IF r.stage = "served" THEN preview ELSE @]
  /\ requests' = requests \ {r}
  /\ UNCHANGED shown

\* Discard, or Dismiss once it is saved.
Discard(p) ==
  /\ \/ dialog[p].result.status = "preview" /\ ~dialog[p].busy
     \/ dialog[p].result.status = "saved"
  /\ dialog' = [dialog EXCEPT ![p].result = NoResult, ![p].file = NoFile]
  /\ UNCHANGED <<modules, library, shown, requests, acts>>

-----------------------------------------------------------------------------
Init ==
  /\ modules = [ip \in Ip |-> [connected |-> TRUE, current |-> None]]
  /\ library = Demos
  /\ list = [p \in Page |-> NoModules]
  /\ selected = [p \in Page |-> [ip \in Ip |-> None]]
  /\ keyboard = [p \in Page |-> [ip \in Ip |-> None]]
  /\ busy = [p \in Page |-> FALSE]
  /\ colorMode = [p \in Page |-> "default"]
  /\ dialog = [p \in Page |-> [file |-> NoFile, busy |-> FALSE, saving |-> FALSE,
                               draft |-> Refused, result |-> NoResult]]
  /\ requests = {}
  /\ acts \in Sessions

\* An answer reaches its page.
Handle(r) ==
  /\ r.stage # "asked"
  /\ \/ Refreshed(r) \/ Fetched(r) \/ Uploaded(r) \/ Recolored(r) \/ Ignored(r)
     \/ Deleted(r) \/ FileImported(r) \/ Accepted(r) \/ EditorSaved(r)
  /\ UNCHANGED <<modules, library, acts>>

UserAct(p) ==
  \/ \E id \in Id : PickForAll(p, id) \/ Delete(p, id) \/ \E ip \in Ip : PickSequence(p, ip, id)
  \/ ToggleColors(p)
  \/ ChooseFile(p) \/ ImportFile(p) \/ Accept(p) \/ Discard(p)
  \/ EditBeforeSaving(p) \/ EditDraft(p) \/ CloseEditor(p) \/ SaveEditor(p)

Next ==
  \/ \E ip \in Ip : Leave(ip) \/ Return(ip) \/ Forget(ip)
  \/ \E r \in requests : Serve(r) \/ Handle(r) \/ Lose(r)
  \/ \E p \in Page : Poll(p) \/ UserAct(p)

\* The timer fires; what is asked about modules is answered, be it by an error, and the
\* answer is handled.  Nothing makes users act.
Polls(p) == {r \in requests : r.page = p /\ r.job = "poll"}
Effects(p, ip) == {r \in requests : r.page = p /\ r.job = "effect" /\ ip \in r.ips}
Uploads(p) == {r \in requests : r.page = p /\ ~Quiet(r.job) /\ ~Dialogs(r.call)}

Fairness ==
  \A p \in Page :
    /\ WF_vars(Poll(p))
    /\ WF_vars(\E r \in Polls(p) : Serve(r)) /\ WF_vars(\E r \in Polls(p) : Handle(r))
    /\ WF_vars(\E r \in Uploads(p) : Serve(r) \/ Handle(r))
    /\ \A ip \in Ip : /\ WF_vars(\E r \in Effects(p, ip) : Serve(r))
                      /\ WF_vars(\E r \in Effects(p, ip) : Handle(r))

Spec == Init /\ [][Next]_vars /\ Fairness

-----------------------------------------------------------------------------
(* Properties *)

\* Every variable holds what its declaration says.
TypeOK ==
  LET Entries == [Ip -> [connected : BOOLEAN, current : Id \cup {None}]] IN
  /\ modules \in Entries
  /\ \A id \in Id : Steps(id) = Refused \/ LibraryTakes(Steps(id))
  /\ \A p \in Page :
       /\ list[p] \in Entries
       /\ {selected[p][ip] : ip \in Ip} \cup {keyboard[p][ip] : ip \in Ip} \subseteq Id \cup {None}
       /\ busy[p] \in BOOLEAN
       /\ colorMode[p] \in {"default", "colorblind"}
       /\ dialog[p].result.status \in {"none", "preview", "editing", "saved"}
  /\ \A r \in requests : r.stage \in {"asked", "served", "refused", "failed"} /\ r.ips \subseteq Ip
  /\ acts \in [modules : Nat, imports : Nat, files : {"any", "few"}]

\* What users import, edit and save can be uploaded: the library takes every preview, and
\* two modules can play it; and the firmware takes every sequence in the library, be it
\* one that the editor has spread over all keys of the longest chain.
LibraryPlays ==
  /\ \A p \in Page : dialog[p].result.status # "none" =>
       LibraryTakes(dialog[p].result.steps) /\ FirmwareTakes(dialog[p].result.steps, KEYS)
  /\ \A id \in Id : Held(id) => FirmwareTakes(Steps(id), MAX_TOTAL_KEYS)

\* The controller refuses a file only if nothing in it fits; a preview shows what is
\* faithful to the file it names, whichever file has been chosen since.
ImportFaithful ==
  /\ \A r \in requests : r.call = "import" /\ r.stage = "served" => Faithful(r.steps, r.file)
  /\ \A r \in requests : r.stage = "refused" =>
       ~Fits(AllNotes(r.file)) /\ \A t \in DOMAIN r.file : ~Fits(r.file[t])
  /\ \A p \in Page : dialog[p].result.status # "none" =>
       Faithful(dialog[p].result.steps, dialog[p].result.file)

\* 'make sure the keyboard visualisation cache follows the controller's current selected
\* sequence for each connected module' (App.jsx), and keeps nothing for others: in the
\* end, whatever the order in which lists and sequences arrive.  The code follows every
\* sequence but the first demo, whose id 0 its condition takes for none.
KeyboardFollows ==
  <>[](\A p \in Page, ip \in Ip :
         /\ ~modules[ip].connected => keyboard[p][ip] = None
         /\ modules[ip].connected /\ Held(modules[ip].current) /\ modules[ip].current # 0
              => keyboard[p][ip] = modules[ip].current)

\* The controls of a page do not stay disabled, whatever fails.
PageFrees == \A p \in Page : busy[p] ~> ~busy[p]
=============================================================================
