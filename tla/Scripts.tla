------------------------------ MODULE Scripts ------------------------------
(* What a script and its background job do to the files they redirect to and *)
(* to the creation mask: src/pkg/gash/fs_handlers.go, shell_options.go,      *)
(* shell_normalization.go, the umask command and the parts of exec.go that   *)
(* open a child shell. A redirection is a private copy of the file, taken    *)
(* when it is opened and written back whole when it is closed. A job writes  *)
(* through the redirection it was started inside of, beside the script and   *)
(* without a lock. The mask belongs to a shell; its subshells share it,      *)
(* bracketed by a push and a pop that the rewriting of the script puts       *)
(* around them.                                                              *)
EXTENDS Integers, Sequences, FiniteSets

CONSTANTS
  Files,      \* the names redirections use
  Bits,       \* permission bits
  Masks,      \* the masks scripts set: subsets of Bits
  Programs,   \* what a run of a script and its job may do, see program
  MaxSaved,   \* masks on a shell's stack
  MaxOpen,    \* redirections open at once
  MaxText     \* bytes in a file

ASSUME MaskAssumption == Masks \subseteq SUBSET Bits /\ {} \in Masks

Procs == {"main", "job"}

\* <, >, >|, >> and <> as the flags the interpreter opens with.
Redirections ==
  [read    |-> [write |-> FALSE, trunc |-> FALSE, append |-> FALSE, create |-> FALSE, force |-> FALSE],
   out     |-> [write |-> TRUE,  trunc |-> TRUE,  append |-> FALSE, create |-> TRUE,  force |-> FALSE],
   clobber |-> [write |-> TRUE,  trunc |-> TRUE,  append |-> FALSE, create |-> TRUE,  force |-> TRUE],
   append  |-> [write |-> TRUE,  trunc |-> FALSE, append |-> TRUE,  create |-> TRUE,  force |-> FALSE],
   update  |-> [write |-> TRUE,  trunc |-> FALSE, append |-> FALSE, create |-> TRUE,  force |-> FALSE]]

ASSUME ProgramAssumption ==
  \A run \in Programs : \A p \in Procs : run[p].uses \subseteq DOMAIN Redirections

Absent == [text |-> <<>>, mode |-> {}, there |-> FALSE]

\* How far a process has got with a write: where it will end, and the copy it
\* has made of the data to grow it.
Idle == [step |-> "idle", end |-> 0, text |-> <<>>]

\* shell: depth of the shell of main whose mask is read, 0 once it has ended.
Nobody == [waiting |-> FALSE, shell |-> 0, mask |-> {}]

VARIABLES
  files,      \* name -> text, mode
  scopes,     \* process -> the shells, subshells and redirections it is inside
  inherited,  \* depth of the redirection of main the job writes through, 0: none
  starting,   \* a job that was started and has not begun: whose mask it will take
  panicking,  \* processes that unwind after an index out of range
  program     \* process -> the redirections it uses, whether it sets the mask and
              \* noclobber, whether it nests shells, and how deep its scopes go

vars == <<files, scopes, inherited, starting, panicking, program>>

-----------------------------------------------------------------------------
(* Scopes.                                                                   *)

Larger(a, b) == IF a < b THEN b ELSE a

Shell(mask) == [kind |-> "shell", mask |-> mask, saved |-> <<>>, noclobber |-> FALSE]

Kind(p, k) == {i \in DOMAIN scopes[p] : scopes[p][i].kind = k}
Last(S) == CHOOSE i \in S : \A j \in S : j <= i

\* The running shell, and the subshells it is inside.
Running(p) == Last(Kind(p, "shell"))
Shells(p) == scopes[p][Running(p)]
Subshells(p) == {i \in Kind(p, "subshell") : i > Running(p)}
Top(p) == scopes[p][Len(scopes[p])]
Opened == Cardinality(Kind("main", "redirect")) + Cardinality(Kind("job", "redirect"))
Deeper(p) == scopes[p] # <<>> /\ Len(scopes[p]) < program[p].depth
Nestable(p) == Deeper(p) /\ program[p].nests

Init ==
  /\ files \in [Files -> {Absent, [text |-> <<"o">>, mode |-> Bits, there |-> TRUE]}]
  /\ scopes = [main |-> <<Shell({})>>, job |-> <<>>]
  /\ inherited = 0
  /\ starting = Nobody
  /\ panicking = {}
  /\ program \in Programs

Update(p, field, value) ==
  scopes' = [scopes EXCEPT ![p][Running(p)] = [@ EXCEPT ![field] = value]]

-----------------------------------------------------------------------------
(* The mask.                                                                 *)

\* Only a subshell whose own text has a umask with an argument is bracketed.
\* A function called in the subshell changes the mask without being seen.
Bracketed(p) == \A i \in Subshells(p) : scopes[p][i].mutates

\* History: the subshell can no longer be expected to give the mask back.
Spoiled(sub) == [sub EXCEPT !.clean = FALSE]

Umask(p, m) ==
  /\ scopes[p] # <<>> /\ Bracketed(p) /\ m # Shells(p).mask
  /\ Update(p, "mask", m)
  /\ UNCHANGED <<files, inherited, starting, panicking, program>>

UmaskInFunction(p, m) ==
  /\ scopes[p] # <<>> /\ ~Bracketed(p) /\ m # Shells(p).mask
  /\ scopes' = [scopes EXCEPT ![p] = [i \in DOMAIN @ |->
       IF i = Running(p) THEN [@[i] EXCEPT !.mask = m]
       ELSE IF i \in Subshells(p) /\ ~@[i].mutates THEN Spoiled(@[i]) ELSE @[i]]]
  /\ UNCHANGED <<files, inherited, starting, panicking, program>>

Push(shell) == [shell EXCEPT !.saved = Append(@, shell.mask)]

\* A pop that takes the oldest entry.
PopOldest(shell) ==
  IF shell.saved = <<>> THEN shell
  ELSE [shell EXCEPT !.mask = shell.saved[1], !.saved = Tail(@)]

Pop(shell) ==
  IF shell.saved = <<>> THEN shell
  ELSE [shell EXCEPT !.mask = shell.saved[Len(shell.saved)],
                     !.saved = SubSeq(@, 1, Len(@) - 1)]

EnterSubshell(p, mutates) ==
  /\ Nestable(p)
  /\ mutates => Bracketed(p) /\ Len(Shells(p).saved) < MaxSaved
  /\ LET sub == [kind |-> "subshell", mutates |-> mutates, clean |-> TRUE,
                 entry |-> Shells(p).mask]
         shell == IF mutates THEN Push(Shells(p)) ELSE Shells(p)
     IN  scopes' = [scopes EXCEPT ![p] = Append([@ EXCEPT ![Running(p)] = shell], sub)]
  /\ UNCHANGED <<files, inherited, starting, panicking, program>>

\* Control reaches the statements the rewriting appended.
EndSubshell(p) ==
  /\ scopes[p] # <<>> /\ Top(p).kind = "subshell"
  /\ LET rest == SubSeq(scopes[p], 1, Len(scopes[p]) - 1)
     IN  scopes' = [scopes EXCEPT ![p] =
           IF Top(p).mutates THEN [rest EXCEPT ![Running(p)] = Pop(@)] ELSE rest]
  /\ UNCHANGED <<files, inherited, starting, panicking, program>>

\* exit inside the subshell: the appended statements do not run.
ExitSubshell(p) ==
  /\ scopes[p] # <<>> /\ Top(p).kind = "subshell"
  /\ LET rest == SubSeq(scopes[p], 1, Len(scopes[p]) - 1)
     IN  scopes' = [scopes EXCEPT ![p] = [i \in DOMAIN rest |->
           IF i \in Subshells(p) /\ Top(p).mutates THEN Spoiled(rest[i]) ELSE rest[i]]]
  /\ UNCHANGED <<files, inherited, starting, panicking, program>>

\* bash -c: its own mask, started from the caller's, its own options. A panic
\* inside it ends there.
EnterShell(p) ==
  /\ Nestable(p)
  /\ scopes' = [scopes EXCEPT ![p] = Append(@, Shell(Shells(p).mask))]
  /\ UNCHANGED <<files, inherited, starting, panicking, program>>

EndShell(p) ==
  /\ Len(scopes[p]) > 1 /\ Top(p).kind = "shell"
  /\ scopes' = [scopes EXCEPT ![p] = SubSeq(@, 1, Len(@) - 1)]
  /\ starting' = IF p = "main" /\ starting.shell = Len(scopes[p])
                 THEN [starting EXCEPT !.shell = 0, !.mask = Top(p).mask] ELSE starting
  /\ panicking' = panicking \ {p}
  /\ UNCHANGED <<files, inherited, program>>

\* set -C and set +C. A subshell shares the flag with its shell.
SetNoclobber(p) ==
  /\ scopes[p] # <<>>
  /\ Update(p, "noclobber", ~Shells(p).noclobber)
  /\ UNCHANGED <<files, inherited, starting, panicking, program>>

-----------------------------------------------------------------------------
(* Redirections.                                                             *)

\* The copy an opened file starts from.
Initial(name, flag) ==
  IF flag.append \/ ~flag.trunc THEN files[name].text ELSE <<>>

\* Looks only for files that have to be there.
RefusedMissing(p, name, flag) == ~flag.create /\ ~files[name].there

\* noclobber refuses an existing file; nothing is created yet.
Refused(p, name, flag) ==
  \/ flag.trunc /\ ~flag.force /\ Shells(p).noclobber /\ files[name].there
  \/ ~flag.create /\ ~files[name].there

OpenMode(p, name) ==
  IF files[name].there THEN files[name].mode ELSE Bits \ Shells(p).mask

Offset(flag, text) == IF flag.append THEN Len(text) ELSE 0

\* History: what a reader of the script expects in the file at the close and,
\* if it was there, with which mode; whether someone else changed the file in
\* between; whether noclobber was to protect it; whether two writes overlapped.
openHandler(p, name, kind) ==
  LET flag == Redirections[kind]
      text == Initial(name, flag)
  IN  /\ Deeper(p) /\ Opened < MaxOpen
      /\ ~Refused(p, name, flag)
      /\ scopes' = [scopes EXCEPT ![p] = Append(@,
           [kind |-> "redirect", name |-> name, write |-> flag.write, append |-> flag.append, trunc |-> flag.trunc,
            text |-> text, offset |-> Offset(flag, text), mode |-> OpenMode(p, name),
            writers |-> [q \in Procs |-> Idle], raced |-> FALSE, expected |-> text, was |-> [files[name] EXCEPT !.text = <<>>], stale |-> FALSE,
            guarded |-> flag.trunc /\ ~flag.force /\ Shells(p).noclobber])]
      /\ UNCHANGED <<files, inherited, starting, panicking, program>>

\* History: a write that starts now comes between the steps of another one.
Overlaps(f) == f.raced \/ \E q \in Procs : f.writers[q] # Idle

\* Data grown to a length; what is new is zero bytes.
Grown(text, end) == [k \in 1 .. Larger(end, Len(text)) |-> IF k <= Len(text) THEN text[k] ELSE "z"]

\* A byte lands at the offset of the private copy, over what is there.
Landed(f, b) ==
  [f EXCEPT !.text = [Grown(@, f.offset + 1) EXCEPT ![f.offset + 1] = b],
            !.offset = @ + 1, !.expected = Append(@, b), !.raced = Overlaps(f)]

\* What a command of p writes to: the innermost redirection of its output,
\* for the job perhaps one of main it was started inside of.
Output(p) == {i \in Kind(p, "redirect") : scopes[p][i].write}
SharesOutput(p) ==
  /\ inherited # 0
  /\ IF p = "main" THEN Last(Output("main")) = inherited ELSE scopes["job"] # <<>> /\ Output("job") = {}

\* A write that nobody else can come between.
Write(p) ==
  /\ Output(p) # {} /\ ~SharesOutput(p)
  /\ LET i == Last(Output(p)) IN
     /\ scopes[p][i].offset < MaxText
     /\ scopes' = [scopes EXCEPT ![p][i] = Landed(@, "n")]
  /\ UNCHANGED <<files, inherited, starting, panicking, program>>

\* The file's data and offset are plain fields: a write of the script or of its
\* job to what they share reads and sets them one after the other, and the
\* other comes in between.
Becomes(i, f) ==
  /\ scopes' = [scopes EXCEPT !["main"][i] = f]
  /\ UNCHANGED <<files, inherited, starting, program>>

\* How far process p has got with a write to redirection i of main.
Doing(p, i, step) == i \in Kind("main", "redirect") /\ scopes["main"][i].writers[p].step = step
Writing(p) == \E i \in Kind("main", "redirect") : ~Doing(p, i, "idle")
Free(p) == p \notin panicking /\ ~Writing(p)

\* The end of the write, and a longer copy of the data when that is too short.
BeginWrite(p) ==
  /\ SharesOutput(p) /\ Free(p)
  /\ LET f == scopes["main"][inherited]
         end == f.offset + 1
         next == IF end > Len(f.text) THEN [step |-> "grow", end |-> end, text |-> Grown(f.text, end)]
                 ELSE [step |-> "copy", end |-> end, text |-> <<>>]
     IN  /\ f.offset < MaxText
         /\ Becomes(inherited, [f EXCEPT !.writers = [@ EXCEPT ![p] = next], !.raced = Overlaps(f)])
  /\ UNCHANGED panicking

\* The copy takes the place of the data. It may be the same memory: then what
\* was written there meanwhile is in it.
GrowData(p, i) ==
  /\ Doing(p, i, "grow")
  /\ \E inPlace \in BOOLEAN :
       LET f == scopes["main"][i]
           copy == f.writers[p].text
           grown == [k \in DOMAIN copy |-> IF inPlace /\ k <= Len(f.text) THEN f.text[k] ELSE copy[k]]
       IN  Becomes(i, [f EXCEPT !.text = grown, !.writers = [@ EXCEPT ![p] = [f.writers[p] EXCEPT !.step = "copy", !.text = <<>>]]])
  /\ UNCHANGED panicking

\* The bounds of data[offset:end] are checked, against the capacity for the end.
OutOfRange(f, p) == f.offset > f.writers[p].end
MayBeOutOfRange(f, p) == OutOfRange(f, p) \/ f.writers[p].end > Len(f.text)

\* Stops one short of the end.
HasRoomShort(f, p) == f.offset + 1 < f.writers[p].end /\ f.offset < Len(f.text)

HasRoom(f, p) == f.offset < f.writers[p].end /\ f.offset < Len(f.text)

\* The byte is copied to where the offset is by now, if there is room for it.
CopyByte(p, i) ==
  /\ Doing(p, i, "copy")
  /\ LET f == scopes["main"][i]
     IN  /\ ~OutOfRange(f, p)
         /\ Becomes(i, [f EXCEPT
              !.text = IF HasRoom(f, p) THEN [@ EXCEPT ![f.offset + 1] = "n"] ELSE @,
              !.expected = Append(@, "n"),
              !.writers = [@ EXCEPT ![p] = [f.writers[p] EXCEPT !.step = "advance"]]])
  /\ UNCHANGED panicking

WriteFails(p, i) ==
  /\ Doing(p, i, "copy")
  /\ LET f == scopes["main"][i]
     IN  MayBeOutOfRange(f, p) /\ Becomes(i, [f EXCEPT !.writers = [@ EXCEPT ![p] = Idle]])
  /\ panicking' = panicking \cup {p}

MoveOffset(p, i) ==
  /\ Doing(p, i, "advance")
  /\ LET f == scopes["main"][i]
     IN  Becomes(i, [f EXCEPT !.offset = f.writers[p].end, !.writers = [@ EXCEPT ![p] = Idle]])
  /\ UNCHANGED panicking

\* A file changed under the redirections that hold a copy of it.
Changed(name, all) ==
  [q \in Procs |-> [i \in DOMAIN all[q] |->
     IF all[q][i].kind = "redirect" /\ all[q][i].name = name
     THEN [all[q][i] EXCEPT !.stale = TRUE] ELSE all[q][i]]]

\* What Close writes back: the whole copy, with the mode of the open.
Stored(f) == [text |-> f.text, mode |-> f.mode, there |-> TRUE]

InheritedAfter(p) == IF p = "main" /\ inherited = Len(scopes[p]) THEN 0 ELSE inherited

\* A job in the middle of a write to what is closed, that may or has to fail.
MayFailAfter(f) ==
  {q \in Procs : \/ f.writers[q].step = "copy" /\ MayBeOutOfRange(f, q)
                 \/ f.writers[q].step = "grow" /\ OutOfRange(f, q)}

\* A job that wrote through the redirection goes on writing into nothing.
Close(p) ==
  /\ scopes[p] # <<>> /\ Top(p).kind = "redirect"
  /\ \E failing \in SUBSET MayFailAfter(Top(p)) :
       /\ {q \in MayFailAfter(Top(p)) : OutOfRange(Top(p), q)} \subseteq failing
       /\ panicking' = panicking \cup failing
  /\ LET f == Top(p)
         rest == [scopes EXCEPT ![p] = SubSeq(@, 1, Len(@) - 1)]
     IN  /\ files' = IF f.write THEN [files EXCEPT ![f.name] = Stored(f)] ELSE files
         /\ scopes' = IF f.write THEN Changed(f.name, rest) ELSE rest
         /\ inherited' = InheritedAfter(p)
         /\ UNCHANGED <<starting, program>>

\* chmod and rm go to the file itself.
Chmod(p, name, mode) ==
  /\ scopes[p] # <<>> /\ files[name].there /\ files[name].mode # mode
  /\ files' = [files EXCEPT ![name].mode = mode]
  /\ scopes' = Changed(name, scopes)
  /\ UNCHANGED <<inherited, starting, panicking, program>>

Remove(p, name) ==
  /\ scopes[p] # <<>> /\ files[name].there
  /\ files' = [files EXCEPT ![name] = Absent]
  /\ scopes' = Changed(name, scopes)
  /\ UNCHANGED <<inherited, starting, panicking, program>>

\* cmd &: a goroutine that will run the text in a shell of its own, with the
\* output of the shell that starts it.
StartJob ==
  /\ scopes["job"] = <<>> /\ ~starting.waiting /\ program["job"].depth > 0
  /\ starting' = [waiting |-> TRUE, shell |-> Running("main"), mask |-> {}]
  /\ inherited' = IF Output("main") = {} THEN 0 ELSE Last(Output("main"))
  /\ UNCHANGED <<files, scopes, panicking, program>>

\* The goroutine gets to run: only now is the mask of the starter copied.
JobMask == IF starting.shell = 0 THEN starting.mask ELSE scopes["main"][starting.shell].mask

BeginJob ==
  /\ starting.waiting
  /\ scopes' = [scopes EXCEPT !["job"] = <<Shell(JobMask)>>]
  /\ starting' = Nobody
  /\ UNCHANGED <<files, inherited, panicking, program>>

EndJob ==
  /\ Len(scopes["job"]) = 1
  /\ scopes' = [scopes EXCEPT !["job"] = <<>>]
  /\ inherited' = 0
  /\ panicking' = panicking \ {"job"}
  /\ UNCHANGED <<files, starting, program>>

\* The call of a script that panicked ends once its job has; the next call has
\* a shell of its own.
ScriptFails ==
  /\ "main" \in panicking /\ Len(scopes["main"]) = 1 /\ scopes["job"] = <<>> /\ ~starting.waiting
  /\ scopes' = [scopes EXCEPT !["main"] = <<Shell({})>>]
  /\ panicking' = panicking \ {"main"}
  /\ UNCHANGED <<files, inherited, starting, program>>

Commands(p) ==
  \/ program[p].sets /\ \E m \in Masks : Umask(p, m) \/ UmaskInFunction(p, m)
  \/ \E mutates \in BOOLEAN : EnterSubshell(p, mutates)
  \/ EndSubshell(p) \/ ExitSubshell(p)
  \/ EnterShell(p) \/ EndShell(p)
  \/ program[p].sets /\ SetNoclobber(p)
  \/ \E name \in Files : \/ \E kind \in program[p].uses : openHandler(p, name, kind)
                         \/ \E m \in Masks : Chmod(p, name, Bits \ m)
                         \/ Remove(p, name)
  \/ Write(p) \/ Close(p)

\* What is open is closed on the way out of a panic.
Unwinds(p) == p \in panicking /\ (ExitSubshell(p) \/ Close(p) \/ EndShell(p))

SharedWrite(p) ==
  \/ BeginWrite(p)
  \/ \E i \in Kind("main", "redirect") : GrowData(p, i) \/ CopyByte(p, i) \/ WriteFails(p, i) \/ MoveOffset(p, i)

Next ==
  \/ \E p \in Procs : \/ Free(p) /\ Commands(p)
                      \/ Unwinds(p) \/ SharedWrite(p)
  \/ Free("main") /\ StartJob
  \/ ~Writing("job") /\ EndJob
  \/ BeginJob \/ ScriptFails

Spec == Init /\ [][Next]_vars

-----------------------------------------------------------------------------
(* Properties.                                                               *)

Text == UNION {[1 .. n -> {"o", "n", "z"}] : n \in 0 .. MaxText}

\* The files, and the nesting the bounds allow; every process that runs has a
\* shell, and the job writes through a redirection of main that is open.
TypeOK ==
  /\ \A n \in Files : files[n].text \in Text /\ files[n].mode \in SUBSET Bits
  /\ \A p \in Procs : /\ Len(scopes[p]) <= program[p].depth
                      /\ scopes[p] # <<>> => scopes[p][1].kind = "shell"
  /\ inherited # 0 => /\ inherited <= Len(scopes["main"])
                      /\ scopes["main"][inherited].kind = "redirect"

\* A subshell that reaches its end gives its shell back the mask it was entered
\* with, whatever subshells and child shells ran inside it and whatever was
\* left on the stack before, unless one inside it was left by exit or a
\* function changed the mask where no umask is in sight
\* (shell_normalization.go:146, umaskScopeRestoreStatements).
MaskScoped ==
  [][\A p \in Procs : EndSubshell(p) /\ Top(p).clean => Shells(p)'.mask = Top(p).entry]_vars

\* What PORTING.md:269 promises: the mask is isolated in a subshell whose text
\* changes it, however the subshell is left.
SubshellsKeepTheMask ==
  [][\A p \in Procs : (EndSubshell(p) \/ ExitSubshell(p)) /\ Top(p).mutates =>
       Shells(p)'.mask = Top(p).entry]_vars

\* A redirection no one interfered with writes what its commands wrote: after
\* what the file held for >>, instead of it for >, and a file that was there
\* keeps its permissions, whatever the mask (fs_handlers.go:66-78, 144-149). The
\* commands may be those of the script and of its job by turns; where two of
\* their writes overlapped, or the close came into one, bytes may be lost: the
\* write has no lock (fs_handlers.go:131-142, jobs.go:201).
HalfWritten(f) == \E q \in Procs : f.writers[q].step = "copy"
WritesBack ==
  [][\A p \in Procs : Close(p) /\ Top(p).write /\ ~Top(p).stale =>
       LET f == Top(p)
           new == files'[f.name]
       IN  /\ (f.append \/ f.trunc) /\ ~f.raced /\ ~HalfWritten(f) => new.text = f.expected
           /\ f.was.there => new.mode = f.was.mode]_vars

\* Under noclobber a plain > replaces a file only when that file came into
\* being, or was changed, between the open and the close (fs_handlers.go:44).
NoclobberKeeps ==
  [][\A p \in Procs : Close(p) /\ Top(p).write /\ Top(p).guarded /\ files[Top(p).name].there
        => Top(p).stale]_vars
=============================================================================
