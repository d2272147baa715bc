------------------------ MODULE ProviderRestoreProofs ------------------------
(***************************************************************************)
(* Proofs about ProviderRestore, for every set of attempts and files, every *)
(* payload and order of components, and every bound. Except for the types,  *)
(* a theorem asks that no caller gives up on a call that is still executed  *)
(* ("late"): with it, a cleanup and the restore it is to undo may run side  *)
(* by side.                                                                 *)
(***************************************************************************)
EXTENDS ProviderRestore, TLAPS

Phases == {"idle", "restoring", "acked", "applied", "committed", "held", "granted",
           "aborting", "cleaning", "ended", "failed"}
Steps == {"idle", "sent"} \cup RestoreSteps \cup UndoSteps
Journal == UNION {Journals(a) : a \in Attempts}
Handlers == [pc : Steps, comp : Nat, scope : SUBSET Components, file : Nat,
             journal : Journal \cup {None}, ok : BOOLEAN]

------------------------------------------------------------------------------
(* The inductive invariant *)

\* The files of the step at hand are the filesystem component's.
AtFilesystem(t) == work[t].comp \in 1 .. Len(Order) /\ KindIs(t, "filesystem")

\* The tables are tables.
Shaped ==
    /\ durable \in [Attempts -> Journal \cup {None}]
    /\ memory \in [Attempts -> Journal \cup {None}]
    /\ work \in [Calls -> Handlers]

\* A handler's place in the components and files fits its step.
PlacedAt(t) ==
    /\ t[2] = "cleanup" => work[t].pc \notin RestoreSteps
    /\ work[t].pc = "sent" => work[t].comp = 0
    /\ work[t].pc = "component" => work[t].comp > 0
    /\ work[t].pc \in UndoSteps => work[t].comp <= Len(Order)
    /\ work[t].pc \in {"persist", "write"} \cup (UndoSteps \ {"undo"}) => AtFilesystem(t)
    /\ work[t].pc \in {"persist"} \cup (UndoSteps \ {"undo"}) => work[t].journal # None
    /\ work[t].pc = "write" => work[t].file > 0
    /\ work[t].pc = "put_back" => work[t].file <= Len(Payload[t[1]])
Placed == \A t \in Calls : PlacedAt(t)

\* The attempt is under way and nothing is committed yet.
Open(a) == ~Settled(a) /\ call[a] # "committed"

\* The filesystem component comes before component i, or is among the first i.
Passed(i) == \E j \in 1 .. Len(Order) : j < i /\ Order[j] = "filesystem"
Reached(i) == \E j \in 1 .. Len(Order) : j <= i /\ Order[j] = "filesystem"

\* j is a journal of the state attempt a was requested in.
Remembers(j, a) ==
    /\ \A f \in PayloadFiles(a) : j.files[f] = before[a].disk[f]
    /\ j.dir = (~before[a].dir /\ PayloadFiles(a) \cap Nested # {})

\* Every file of the payload is the attempt's.
Written(a) == \A f \in PayloadFiles(a) : disk[f] = a

\* A handler runs while its caller waits. The durable journal is there from before the
\* first write to after the last put-back; so many files are written, or put back; and a
\* cleanup without an error ends with the journal gone.
Caller(t) == IF t[2] = "restore" THEN "restoring" ELSE "cleaning"
RestoreAt(t) ==
    LET a == t[1] IN
    /\ work[t].pc = "sent" /\ t[2] = "restore" => durable[a] = None
    /\ work[t].pc = "component" => (durable[a] # None <=> Passed(work[t].comp))
    /\ work[t].pc = "component" /\ Passed(work[t].comp) => Written(a)
    /\ work[t].pc = "persist" => durable[a] = None /\ Remembers(work[t].journal, a)
    /\ work[t].pc = "write" =>
          /\ durable[a] # None
          /\ \A i \in 1 .. Len(Payload[a]) : i < work[t].file => disk[Payload[a][i]] = a
UndoAt(t) ==
    LET a == t[1] IN
    /\ work[t].pc \in {"put_back", "remove_dirs", "drop"} =>
          durable[a] # None /\ work[t].journal = durable[a] /\ memory[a] = None
    /\ work[t].pc = "put_back" =>
          \A i \in 1 .. Len(Payload[a]) : i > work[t].file =>
              disk[Payload[a][i]] = before[a].disk[Payload[a][i]]
    /\ work[t].pc \in {"remove_dirs", "drop"} => disk = before[a].disk
    /\ work[t].pc = "drop" => dir = before[a].dir
    /\ work[t].pc = "remove_root" => durable[a] = None
    /\ t[2] = "cleanup" /\ work[t].pc = "undo" /\ work[t].ok =>
          durable[a] = None \/ Reached(work[t].comp)
Handled ==
    \A t \in Calls : /\ work[t].pc # "idle" => call[t[1]] = Caller(t)
                     /\ RestoreAt(t) /\ UndoAt(t)

\* Journals tell what was found; the copy in memory is no other; an attempt that has not
\* begun, or whose provider was asked to commit or to clean up, has none; one that goes on
\* to its commit is written.
RecordAt(a) ==
    /\ durable[a] # None => Remembers(durable[a], a)
    /\ memory[a] # None => memory[a] = durable[a]
    /\ call[a] = "idle" => durable[a] = None
    /\ a \in clean => /\ durable[a] = None
                      /\ call[a] \in {"aborting", "cleaning", "ended", "failed", "granted"}
    /\ call[a] \in {"acked", "applied"} => Written(a)
Recorded == \A a \in Attempts : RecordAt(a)

\* Attempt a can be undone where the files are as in d.
Undoable(a, d) ==
    \A f \in Files : d[f] = a =>
        /\ f \in PayloadFiles(a)
        /\ durable[a] # None
        /\ durable[a].files[f] = before[a].disk[f]
Undoables == \A a \in Attempts : ~Committed(a) => Undoable(a, disk)

\* The files of the last commit are as they were committed in d.
Standing(d) == last # None => \A f \in PayloadFiles(last) : d[f] = last

\* While an attempt is open a file is as it was found or has been restored, and without a
\* journal everything is as it was found.
ContainedAt(a) ==
    /\ \A f \in Files : \/ disk[f] = before[a].disk[f]
                        \/ disk[f] = a /\ f \in PayloadFiles(a)
    /\ before[a].dir => dir
    /\ dir => before[a].dir \/ PayloadFiles(a) \cap Nested # {}
    /\ durable[a] = None => disk = before[a].disk /\ dir = before[a].dir

\* What it found: nothing of its own; what can be undone; and the files of the last commit
\* if everything since was undone.
FoundAt(a) ==
    /\ \A f \in Files : before[a].disk[f] # a
    /\ \A f \in Nested : before[a].disk[f] # Absent => before[a].dir
    /\ \A b \in Attempts \ {a} : ~Committed(b) => Undoable(b, before[a].disk)
    /\ (\A b \in after \ {a} : b \in clean) => Standing(before[a].disk)
    /\ a \in after
Opened == \A a \in Attempts : Open(a) => ContainedAt(a) /\ FoundAt(a)

\* One attempt is under way at a time; a directory is there if a file in it is; and while
\* no attempt is open, what was committed last is there if everything since was undone.
Resting ==
    /\ \A a, b \in Attempts : Settled(a) \/ Settled(b) \/ a = b
    /\ \A a \in Attempts : call[a] = "idle" \/ Committed(a) => a \notin after
    /\ \A f \in Nested : disk[f] # Absent => dir
    /\ (\A a \in Attempts : ~Open(a)) /\ after \subseteq clean => Standing(disk)

OneAtATime == Handled /\ Recorded /\ Undoables /\ Opened /\ Resting

IInv == TypeOK /\ Shaped /\ Placed /\ ("late" \notin Faults => OneAtATime)

------------------------------------------------------------------------------
(* Types *)

\* TypeOK and Shaped, by the part of the state they are about.
DiskTypes ==
    /\ root \in BOOLEAN /\ dir \in BOOLEAN /\ litter \in BOOLEAN
    /\ disk \in [Files -> Contents]
    /\ region \in Attempts \cup {Absent}
JournalTypes ==
    /\ durable \in [Attempts -> Journal \cup {None}]
    /\ memory \in [Attempts -> Journal \cup {None}]
    /\ \A a \in Attempts : durable[a] \in Journals(a) \cup {None}
    /\ \A a \in Attempts : memory[a] \in Journals(a) \cup {None}
WorkTypes ==
    /\ work \in [Calls -> Handlers]
    /\ \A t \in Calls :
          /\ work[t].comp <= Len(Order) + 1
          /\ work[t].file <= Len(Payload[t[1]]) + 1
          /\ work[t].journal \in Journals(t[1]) \cup {None}
Scopes == (SUBSET Components) \cup {None}
CoordTypes ==
    /\ pending \in [Attempts -> Scopes]
    /\ hosted \subseteq Components
    /\ call \in [Attempts -> Phases]
    /\ journaled \subseteq Attempts
    /\ crashes \in 0 .. MaxCrashes
    /\ restarts \in 0 .. MaxRestarts
    /\ clean \subseteq Attempts
    /\ last \in Attempts \cup {None}
    /\ after \subseteq Attempts
    /\ before \in [Attempts -> [disk : [Files -> Contents], dir : BOOLEAN]]

\* The parts are all there is to it.
LEMMA TypeParts ==
    TypeOK /\ Shaped <=> DiskTypes /\ JournalTypes /\ WorkTypes /\ CoordTypes
<1>1. \A a \in Attempts : Len(Payload[a]) \in Nat /\ Len(Order) \in Nat
  BY ProviderFilesAssumption
<1>2. \A t \in Calls : t[1] \in Attempts /\ t[2] \in {"restore", "cleanup"} /\ t = <<t[1], t[2]>>
  BY DEF Calls
<1>3. ASSUME work \in [Calls -> Handlers], NEW t \in Calls
      PROVE /\ work[t].pc \in {"idle", "sent"} \cup RestoreSteps \cup UndoSteps
            /\ work[t].comp \in Nat /\ work[t].file \in Nat /\ work[t].ok \in BOOLEAN
            /\ work[t].scope \subseteq Components
  BY <1>3 DEF Handlers, Steps
<1> QED BY <1>1, <1>2, <1>3 DEF TypeOK, Shaped, DiskTypes, JournalTypes, WorkTypes, CoordTypes,
           Phases, Scopes

\* What pending_restores holds of an attempt.
LEMMA ScopeParts ==
    /\ None \in Scopes /\ \A sc \in SUBSET Components : sc \in Scopes
    /\ \A sc \in Scopes : sc # None => sc \in SUBSET Components
<1>1. None \in Scopes
  BY DEF Scopes
<1>2. \A sc \in SUBSET Components : sc \in Scopes
  BY DEF Scopes
<1>3. \A sc \in Scopes : sc # None => sc \in SUBSET Components
  BY DEF Scopes
<1> QED BY <1>1, <1>2, <1>3

\* A call is an attempt and what is done for it.
LEMMA CallParts ==
    /\ \A t \in Calls : t[1] \in Attempts /\ t[2] \in {"restore", "cleanup"} /\ t = <<t[1], t[2]>>
    /\ \A a \in Attempts, k \in {"restore", "cleanup"} :
          <<a, k>> \in Calls /\ <<a, k>>[1] = a /\ <<a, k>>[2] = k
BY DEF Calls

\* What the assumptions say of the sequences.
LEMMA Lengths ==
    /\ Len(Order) \in Nat
    /\ \A i \in 1 .. Len(Order) : Order[i] \in {"filesystem", "memory", "application"}
    /\ \A a \in Attempts : /\ Len(Payload[a]) \in Nat
                           /\ PayloadFiles(a) \subseteq Files
                           /\ \A i \in 1 .. Len(Payload[a]) : Payload[a][i] \in PayloadFiles(a)
BY ProviderFilesAssumption DEF PayloadFiles

\* The fields of a journal.
LEMMA JournalFields ==
    ASSUME NEW a \in Attempts, NEW j \in Journals(a)
    PROVE  /\ j \in Journal /\ j # None
           /\ \A f \in PayloadFiles(a) : j.files[f] \in Contents
           /\ j.dir \in BOOLEAN /\ j.root \in BOOLEAN
BY ProviderNoneAssumption DEF Journals, Journal

\* A scan makes a journal of what it finds.
LEMMA Scanned ==
    ASSUME DiskTypes, NEW a \in Attempts
    PROVE  /\ ScanFiles(a) \in Journals(a) /\ ScanFiles(a) # None
           /\ \A f \in PayloadFiles(a) : ScanFiles(a).files[f] = disk[f]
           /\ ScanFiles(a).dir = (~dir /\ PayloadFiles(a) \cap Nested # {})
<1>1. ScanFiles(a) \in Journals(a)
  BY Lengths DEF DiskTypes, ScanFiles, Journals
<1> QED BY <1>1, JournalFields DEF ScanFiles

------------------------------------------------------------------------------
(* What a step does to a handler *)

\* Call t is at step p of component c next, and the other calls are where they were.
Becomes(t, p, c, f, j, o) ==
    /\ work' \in [Calls -> Handlers]
    /\ work'[t].pc = p /\ work'[t].comp = c /\ work'[t].file = f
    /\ work'[t].journal = j /\ work'[t].ok = o
    /\ \A u \in Calls : u # t => work'[u] = work[u]

\* A handler goes where its step says, and no other handler moves.
LEMMA Going ==
    ASSUME work \in [Calls -> Handlers], NEW t \in Calls, NEW p \in Steps, NEW c \in Nat,
           NEW sc \in SUBSET Components, NEW f \in Nat, NEW j \in Journal \cup {None}, NEW o \in BOOLEAN,
           Goto(t, Handler(p, c, sc, f, j, o))
    PROVE  Becomes(t, p, c, f, j, o)
<1>1. Handler(p, c, sc, f, j, o) \in Handlers
  BY DEF Handler, Handlers
<1>2. work' \in [Calls -> Handlers] /\ work'[t] = Handler(p, c, sc, f, j, o)
  BY <1>1 DEF Goto
<1>3. \A u \in Calls : u # t => work'[u] = work[u]
  BY DEF Goto
<1> QED BY <1>2, <1>3 DEF Becomes, Handler

\* The ways a handler moves on.
LEMMA Moves ==
    ASSUME work \in [Calls -> Handlers], NEW t \in Calls
    PROVE  /\ work[t].pc \in Steps /\ work[t].comp \in Nat /\ work[t].file \in Nat
           /\ work[t].journal \in Journal \cup {None} /\ work[t].ok \in BOOLEAN
           /\ work[t].scope \in SUBSET Components
           /\ Send(t) => Becomes(t, "sent", 0, 0, None, TRUE)
           /\ \A sc \in SUBSET Components : Advance(t, sc) =>
                Becomes(t, "component", work[t].comp + 1, 0, None, TRUE)
           /\ \A i \in Nat, sc \in SUBSET Components : Undo(t, i, sc) =>
                Becomes(t, "undo", i, 0, None, TRUE)
           /\ \A o \in BOOLEAN : Retreat(t, o) /\ work[t].comp > 0 =>
                Becomes(t, "undo", work[t].comp - 1, 0, None, work[t].ok /\ o)
           /\ \A s \in Steps : Move(t, s) =>
                Becomes(t, s, work[t].comp, work[t].file, work[t].journal, work[t].ok)
           /\ \A s \in Steps, n \in Nat, j \in Journal \cup {None} : Handle(t, s, n, j) =>
                Becomes(t, s, work[t].comp, n, j, work[t].ok)
           /\ Goto(t, NoWork) => Becomes(t, "idle", 0, 0, None, TRUE)
<1>0. {"sent", "component", "undo", "idle"} \subseteq Steps /\ {} \in SUBSET Components
  BY DEF Steps, RestoreSteps, UndoSteps
<1>1. /\ work[t].pc \in Steps /\ work[t].comp \in Nat /\ work[t].file \in Nat
      /\ work[t].journal \in Journal \cup {None} /\ work[t].ok \in BOOLEAN
      /\ work[t].scope \in SUBSET Components
  BY DEF Handlers
<1>2. Send(t) => Becomes(t, "sent", 0, 0, None, TRUE)
  BY <1>0, Going DEF Send
<1>3. \A sc \in SUBSET Components : Advance(t, sc) =>
         Becomes(t, "component", work[t].comp + 1, 0, None, TRUE)
  <2>1. work[t].comp + 1 \in Nat
    BY <1>1
  <2> QED BY <1>0, <2>1, Going DEF Advance
<1>4. \A i \in Nat, sc \in SUBSET Components : Undo(t, i, sc) =>
         Becomes(t, "undo", i, 0, None, TRUE)
  BY <1>0, Going DEF Undo
<1>5. \A o \in BOOLEAN : Retreat(t, o) /\ work[t].comp > 0 =>
         Becomes(t, "undo", work[t].comp - 1, 0, None, work[t].ok /\ o)
  <2> SUFFICES ASSUME NEW o \in BOOLEAN, Retreat(t, o), work[t].comp > 0
               PROVE  Becomes(t, "undo", work[t].comp - 1, 0, None, work[t].ok /\ o)
    OBVIOUS
  <2>1. work[t].comp - 1 \in Nat /\ (work[t].ok /\ o) \in BOOLEAN
    BY <1>1
  <2> QED BY <1>0, <1>1, <2>1, Going DEF Retreat
<1>6. \A s \in Steps, n \in Nat, j \in Journal \cup {None} : Handle(t, s, n, j) =>
         Becomes(t, s, work[t].comp, n, j, work[t].ok)
  BY <1>1, Going DEF Handle
<1>7. \A s \in Steps : Move(t, s) =>
         Becomes(t, s, work[t].comp, work[t].file, work[t].journal, work[t].ok)
  BY <1>1, <1>6 DEF Move
<1>8. Goto(t, NoWork) => Becomes(t, "idle", 0, 0, None, TRUE)
  BY <1>0, Going DEF NoWork
<1> QED BY <1>1, <1>2, <1>3, <1>4, <1>5, <1>6, <1>7, <1>8

\* A component is done with, or given up.
Advances(t) ==
    \/ Advance(t, {}) \/ Advance(t, work[t].scope)
    \/ work[t].comp \in Components /\ Advance(t, Taken(t))
GivesUp(t) == work[t].comp \in Components /\ Undo(t, work[t].comp, Taken(t))

\* What the restore handler of attempt a does next.
RestoreMove(a, t) ==
    /\ Advances(t) => Becomes(t, "component", work[t].comp + 1, 0, None, TRUE)
    /\ GivesUp(t) => Becomes(t, "undo", work[t].comp, 0, None, TRUE)
    /\ work[t].comp > 0 /\ Undo(t, work[t].comp - 1, work[t].scope) =>
        Becomes(t, "undo", work[t].comp - 1, 0, None, TRUE)
    /\ Handle(t, "persist", 0, ScanFiles(a)) =>
        Becomes(t, "persist", work[t].comp, 0, ScanFiles(a), work[t].ok)
    /\ Handle(t, "write", 1, None) =>
        Becomes(t, "write", work[t].comp, 1, None, work[t].ok)
    /\ Handle(t, "write", work[t].file + 1, None) =>
        Becomes(t, "write", work[t].comp, work[t].file + 1, None, work[t].ok)
    /\ Goto(t, NoWork) => Becomes(t, "idle", 0, 0, None, TRUE)

\* A step of a restore moves its handler, and only it.
LEMMA RestoreMoves ==
    ASSUME DiskTypes, WorkTypes, NEW a \in Attempts, NEW t, t = <<a, "restore">>
    PROVE  RestoreMove(a, t)
<1>1. t \in Calls /\ work \in [Calls -> Handlers]
  BY CallParts DEF WorkTypes
<1>2. work[t].comp \in Nat /\ work[t].file \in Nat /\ work[t].scope \in SUBSET Components
  BY <1>1, Moves
<1>3. /\ 0 \in Nat /\ 1 \in Nat /\ work[t].file + 1 \in Nat
      /\ work[t].comp > 0 => work[t].comp - 1 \in Nat
      /\ {} \in SUBSET Components
      /\ work[t].comp \in Components => Taken(t) \in SUBSET Components
  BY <1>2 DEF Taken
<1>4. {"persist", "write"} \subseteq Steps
  BY DEF Steps, RestoreSteps
<1>5. ScanFiles(a) \in Journal
  BY Scanned, JournalFields
<1> QED BY <1>1, <1>2, <1>3, <1>4, <1>5, Moves DEF RestoreMove, Advances, GivesUp

\* What a handler that rolls back does next.
TheJournal(a) == IF memory[a] # None THEN memory[a] ELSE durable[a]
UndoMove(t) ==
    /\ work[t].comp > 0 /\ Retreat(t, TRUE) =>
        Becomes(t, "undo", work[t].comp - 1, 0, None, work[t].ok)
    /\ work[t].comp > 0 /\ Retreat(t, FALSE) =>
        Becomes(t, "undo", work[t].comp - 1, 0, None, FALSE)
    /\ \A s \in {"remove_dirs", "drop", "remove_root"} : Move(t, s) =>
        Becomes(t, s, work[t].comp, work[t].file, work[t].journal, work[t].ok)
    /\ Handle(t, "put_back", Len(Payload[t[1]]), TheJournal(t[1])) =>
        Becomes(t, "put_back", work[t].comp, Len(Payload[t[1]]), TheJournal(t[1]), work[t].ok)
    /\ work[t].file > 0 /\ Handle(t, "put_back", work[t].file - 1, work[t].journal) =>
        Becomes(t, "put_back", work[t].comp, work[t].file - 1, work[t].journal, work[t].ok)

\* A step of a rollback moves its handler, and only it.
LEMMA UndoMoves ==
    ASSUME JournalTypes, WorkTypes, NEW t \in Calls
    PROVE  UndoMove(t)
<1>1. work \in [Calls -> Handlers] /\ t[1] \in Attempts
  BY CallParts DEF WorkTypes
<1>2. /\ work[t].comp \in Nat /\ work[t].file \in Nat /\ work[t].ok \in BOOLEAN
      /\ work[t].journal \in Journal \cup {None}
  BY <1>1, Moves
<1>3. /\ Len(Payload[t[1]]) \in Nat /\ (work[t].file > 0 => work[t].file - 1 \in Nat)
      /\ TheJournal(t[1]) \in Journal \cup {None}
  BY <1>1, <1>2, Lengths DEF JournalTypes, TheJournal
<1>4. {"put_back", "remove_dirs", "drop", "remove_root"} \subseteq Steps
  BY DEF Steps, UndoSteps
<1>5. \A o \in BOOLEAN : Retreat(t, o) /\ work[t].comp > 0 =>
         Becomes(t, "undo", work[t].comp - 1, 0, None, work[t].ok /\ o)
  BY <1>1, Moves
<1>6. (work[t].ok /\ TRUE) = work[t].ok /\ (work[t].ok /\ FALSE) = FALSE
  BY <1>2
<1>7. /\ work[t].comp > 0 /\ Retreat(t, TRUE) =>
           Becomes(t, "undo", work[t].comp - 1, 0, None, work[t].ok)
      /\ work[t].comp > 0 /\ Retreat(t, FALSE) =>
           Becomes(t, "undo", work[t].comp - 1, 0, None, FALSE)
  BY <1>5, <1>6
<1>8. \A s \in {"remove_dirs", "drop", "remove_root"} : Move(t, s) =>
           Becomes(t, s, work[t].comp, work[t].file, work[t].journal, work[t].ok)
  BY <1>1, <1>4, Moves
<1>9. \A s \in Steps, n \in Nat, j \in Journal \cup {None} : Handle(t, s, n, j) =>
           Becomes(t, s, work[t].comp, n, j, work[t].ok)
  BY <1>1, Moves
<1> QED BY <1>2, <1>3, <1>4, <1>7, <1>8, <1>9 DEF UndoMove

\* A step of one handler keeps the handlers' types if it keeps that one's.
OneStep(t) ==
    /\ work' \in [Calls -> Handlers]
    /\ \A u \in Calls : u # t => work'[u] = work[u]
    /\ work'[t].comp <= Len(Order) + 1
    /\ work'[t].file <= Len(Payload[t[1]]) + 1
    /\ work'[t].journal \in Journals(t[1]) \cup {None}
    /\ PlacedAt(t)'

\* When one handler moves, it is enough that its new place fits.
LEMMA OneStepKeeps ==
    ASSUME WorkTypes, Placed, NEW t \in Calls, OneStep(t)
    PROVE  WorkTypes' /\ Placed'
BY DEF OneStep, WorkTypes, Placed, PlacedAt, AtFilesystem, KindIs

------------------------------------------------------------------------------
(* Types are kept *)

\* A step of do_restore keeps the handlers in their places.
LEMMA RestoreTypes ==
    ASSUME DiskTypes, JournalTypes, WorkTypes, CoordTypes, Placed,
           NEW a \in Attempts, RestoreStep(a)
    PROVE  DiskTypes' /\ JournalTypes' /\ WorkTypes' /\ CoordTypes' /\ Placed'
<1> DEFINE t == <<a, "restore">>
<1>1. t \in Calls /\ t[1] = a /\ t[2] = "restore" /\ t = <<a, "restore">>
  BY CallParts
<1>2. work[t].comp \in Nat /\ work[t].file \in Nat /\ PlacedAt(t) /\ RestoreMove(a, t)
  BY <1>1, Moves, RestoreMoves DEF WorkTypes, Placed
<1>3. Len(Order) \in Nat /\ Len(Payload[a]) \in Nat
  BY Lengths
<1>4. OneStep(t)
  <2> USE <1>1, <1>2, <1>3 DEF OneStep, RestoreMove, Becomes, PlacedAt, AtFilesystem,
          RestoreSteps, UndoSteps, KindIs, At, Turn, Component, Components
  <2> HIDE DEF t
  <2>1. CASE ReceiveRestore(a)
    BY <2>1 DEF ReceiveRestore, Advances
  <2>2. CASE ProviderMissing(a) \/ PayloadFails(a)
    <3>1. work[t].pc = "component" /\ work[t].comp \in 1 .. Len(Order)
      BY <2>2 DEF ProviderMissing, PayloadFails
    <3>2. Advance(t, work[t].scope) \/ Undo(t, work[t].comp - 1, work[t].scope)
      BY <2>2 DEF ProviderMissing, PayloadFails
    <3> QED BY <3>1, <3>2 DEF Advances
  <2>3. CASE ApplyCallback(a) \/ ApplyRegions(a)
    <3>1. work[t].pc = "component" /\ work[t].comp \in 1 .. Len(Order)
      BY <2>3 DEF ApplyCallback, ApplyRegions
    <3>2. Advance(t, Taken(t)) \/ Undo(t, work[t].comp, Taken(t))
      BY <2>3 DEF ApplyCallback, ApplyRegions
    <3> QED BY <3>1, <3>2 DEF Advances, GivesUp
  <2>5. CASE Scan(a)
    <3>1. ScanFiles(a) \in Journals(a) /\ ScanFiles(a) # None
      BY Scanned
    <3>2. CASE Handle(t, "persist", 0, ScanFiles(a))
      BY <2>5, <3>1, <3>2 DEF Scan
    <3>3. CASE Undo(t, work[t].comp, Taken(t))
      BY <2>5, <3>3 DEF Scan, GivesUp
    <3> QED BY <2>5, <3>2, <3>3 DEF Scan
  <2>6. CASE Persist(a)
    BY SMTT(30), <2>6 DEF Persist, GivesUp
  <2>7. CASE WriteFile(a)
    BY SMTT(30), <2>7 DEF WriteFile, GivesUp
  <2>8. CASE FilesWritten(a)
    BY SMTT(30), <2>8 DEF FilesWritten, Advances
  <2>9. CASE RestoreDone(a)
    BY <2>9 DEF RestoreDone
  <2>10. CASE RestoreFailed(a)
    BY <2>10 DEF RestoreFailed
  <2> QED BY ONLY RestoreStep(a), <2>1, <2>2, <2>3, <2>5, <2>6, <2>7, <2>8, <2>9,
                  <2>10 DEF RestoreStep
<1>5. WorkTypes' /\ Placed'
  BY <1>1, <1>4, OneStepKeeps
<1> HIDE DEF t
<1>6. /\ work[t].journal \in Journals(a) \cup {None} /\ work[t].journal \in Journal \cup {None}
      /\ work[t].scope \in SUBSET Components
      /\ work[t].pc = "persist" => work[t].journal # None
  BY <1>1, Moves DEF WorkTypes, Placed, PlacedAt
<1> USE <1>1 DEF RestoreStep, ReceiveRestore, ProviderMissing, PayloadFails, ApplyCallback, ApplyRegions, Scan,
        Persist, WriteFile, FilesWritten, RestoreDone, RestoreFailed, diskVars, procVars,
        coordVars, histVars, At, Turn, Component
<1>7. DiskTypes'
  BY Lengths DEF DiskTypes, Contents
<1>8. JournalTypes'
  BY ZenonT(40), <1>6 DEF JournalTypes
<1>9. CoordTypes'
  BY <1>6, ScopeParts DEF CoordTypes, AnswerRestore, Phases
<1> QED BY <1>5, <1>7, <1>8, <1>9

\* A handler that rolls back has a component, but for the step that ends it.
LEMMA UndoStepAt ==
    ASSUME Placed, NEW t \in Calls, UndoStep(t)
    PROVE  work[t].comp > 0 /\ work[t].pc \in UndoSteps
<1>1. PlacedAt(t) /\ Len(Order) \in Nat
  BY Lengths DEF Placed
<1>2. work[t].pc \in UndoSteps \ {"undo"} \/ (work[t].pc = "undo" /\ work[t].comp > 0)
  BY DEF UndoStep, UndoPasses, UndoCallback, UndoRegions, TakeJournal, PutBack, PutBackDone,
         RemoveDirs, DropJournal, RemoveRoot, UndoFails, At, Back, UndoSteps
<1>3. work[t].pc \in UndoSteps \ {"undo"} => work[t].comp \in 1 .. Len(Order)
  BY <1>1 DEF PlacedAt, AtFilesystem
<1> QED BY <1>1, <1>2, <1>3 DEF UndoSteps

\* Passing over the filesystem component is not a success.
LEMMA Passes ==
    ASSUME NEW t, UndoPasses(t)
    PROVE  IF KindIs(t, "filesystem") THEN Retreat(t, FALSE) ELSE Retreat(t, TRUE)
<1>1. CASE KindIs(t, "filesystem")
  <2>1. (~KindIs(t, "filesystem")) = FALSE
    BY <1>1
  <2> QED BY <1>1, <2>1 DEF UndoPasses
<1>2. CASE ~KindIs(t, "filesystem")
  <2>1. (~KindIs(t, "filesystem")) = TRUE
    BY <1>2
  <2> QED BY <1>2, <2>1 DEF UndoPasses
<1> QED BY <1>1, <1>2

\* A step of a rollback keeps the handlers in their places.
LEMMA UndoTypes ==
    ASSUME DiskTypes, JournalTypes, WorkTypes, CoordTypes, Placed,
           NEW t \in Calls, UndoStep(t)
    PROVE  DiskTypes' /\ JournalTypes' /\ WorkTypes' /\ CoordTypes' /\ Placed'
<1>1. t[1] \in Attempts
  BY CallParts
<1>2. work[t].comp \in Nat /\ work[t].file \in Nat /\ PlacedAt(t) /\ UndoMove(t)
  BY <1>1, Moves, UndoMoves DEF WorkTypes, Placed
<1>3. Len(Order) \in Nat /\ Len(Payload[t[1]]) \in Nat
  BY <1>1, Lengths
<1>4. /\ work[t].journal \in Journals(t[1]) \cup {None} /\ work[t].ok \in BOOLEAN
      /\ work[t].file <= Len(Payload[t[1]]) + 1
      /\ TheJournal(t[1]) \in Journals(t[1]) \cup {None}
  BY <1>1, Moves DEF WorkTypes, JournalTypes, TheJournal
<1>5. OneStep(t)
  <2> USE <1>1, <1>2, <1>3, <1>4 DEF PlacedAt, AtFilesystem, UndoSteps, RestoreSteps, KindIs, At, Back
  <2>1. CASE \E o \in BOOLEAN : Becomes(t, "undo", work[t].comp - 1, 0, None, o) /\ work[t].comp > 0 /\ work[t].pc \in UndoSteps
    BY <2>1 DEF OneStep, Becomes
  <2>2. CASE Retreat(t, TRUE) \/ Retreat(t, FALSE)
    BY <2>1, <2>2, UndoStepAt DEF UndoMove
  <2>3. CASE TakeJournal(t) /\ TheJournal(t[1]) # None
    BY <2>3 DEF OneStep, Becomes, UndoMove, TakeJournal, TheJournal
  <2>4. CASE PutBack(t)
    <3>1. Becomes(t, "put_back", work[t].comp, work[t].file - 1, work[t].journal, work[t].ok)
      BY <2>4 DEF UndoMove, PutBack
    <3>2. work[t].pc = "put_back" /\ work[t].file > 0
      BY <2>4 DEF PutBack
    <3>3. work[t].file - 1 \in Nat /\ work[t].file - 1 <= Len(Payload[t[1]]) + 1
      BY ONLY <1>2, <1>3, <1>4, <3>2
    <3>4. PlacedAt(t)'
      BY ONLY <1>2, <1>4, <3>1, <3>2, <3>3 DEF Becomes, PlacedAt, AtFilesystem, UndoSteps,
          RestoreSteps, KindIs
    <3> QED BY ONLY <1>2, <1>4, <3>1, <3>3, <3>4 DEF OneStep, Becomes
  <2>5. CASE PutBackDone(t) \/ RemoveDirs(t) \/ DropJournal(t)
    BY <2>5 DEF OneStep, Becomes, UndoMove, PutBackDone, RemoveDirs, DropJournal
  <2>6. CASE UndoPasses(t)
    BY ONLY <2>2, <2>6, Passes DEF UndoPasses
  <2> QED BY ONLY UndoStep(t), <2>2, <2>3, <2>4, <2>5, <2>6 DEF UndoStep, UndoCallback,
        UndoRegions, TakeJournal, TheJournal, RemoveRoot, UndoFails
<1>6. WorkTypes' /\ Placed'
  BY <1>5, OneStepKeeps
<1>7. work[t].pc = "put_back" /\ work[t].file > 0 =>
         /\ Payload[t[1]][work[t].file] \in PayloadFiles(t[1])
         /\ PayloadFiles(t[1]) \subseteq Files
         /\ work[t].journal.files[Payload[t[1]][work[t].file]] \in Contents
  BY <1>1, <1>2, <1>4, Lengths, JournalFields DEF PlacedAt, UndoSteps
<1> USE <1>1 DEF UndoStep, UndoPasses, UndoCallback, UndoRegions, TakeJournal, PutBack, PutBackDone,
        RemoveDirs,
        DropJournal, RemoveRoot, UndoFails, diskVars, procVars, coordVars, histVars, At,
        Back
<1>8. DiskTypes'
  BY <1>2, <1>7, Lengths DEF DiskTypes, CutShort, Contents, PlacedAt
<1>9. JournalTypes'
  BY DEF JournalTypes
<1>10. CoordTypes'
  BY DEF CoordTypes
<1> QED BY <1>6, <1>8, <1>9, <1>10

\* The coordinator's steps for an attempt, and those of the cleanup handler's ends.
CallStep(a) == RequestRestore(a) \/ Recover(a) \/ CoordinatorStep(a)
CleanupStep(a) == ReceiveCleanup(a) \/ CleanupDone(a)

\* A step of the coordinator keeps the handlers in their places.
LEMMA CallTypes ==
    ASSUME DiskTypes, JournalTypes, WorkTypes, CoordTypes, Placed,
           NEW a \in Attempts, CallStep(a)
    PROVE  DiskTypes' /\ JournalTypes' /\ WorkTypes' /\ CoordTypes' /\ Placed'
<1>1. /\ <<a, "restore">> \in Calls /\ <<a, "cleanup">> \in Calls
      /\ <<a, "restore">>[1] = a /\ <<a, "cleanup">>[1] = a
  BY CallParts
<1>2. Len(Order) \in Nat /\ Len(Payload[a]) \in Nat
  BY Lengths
<1>3. ASSUME NEW t \in Calls, t[1] = a, Send(t) PROVE WorkTypes' /\ Placed'
  <2>1. Becomes(t, "sent", 0, 0, None, TRUE)
    BY <1>3, Moves DEF WorkTypes
  <2>2. OneStep(t)
    BY <1>2, <1>3, <2>1 DEF OneStep, Becomes, PlacedAt, UndoSteps, RestoreSteps
  <2> QED BY <2>2, OneStepKeeps
<1> USE DEF CallStep, RequestRestore, Recover, CoordinatorStep, CallFails, JournalRestored,
        CommitGeneration, SendCleanup, FinishFailed, Grant, CommitProvider, diskVars, procVars,
        coordVars, histVars
<1>4. ASSUME UNCHANGED work PROVE WorkTypes' /\ Placed'
  <2>1. WorkTypes'
    BY <1>4 DEF WorkTypes
  <2>2. Placed'
    BY <1>4 DEF Placed, PlacedAt, AtFilesystem, KindIs
  <2> QED BY <2>1, <2>2
<1>5. WorkTypes' /\ Placed'
  <2>1. Send(<<a, "restore">>) \/ Send(<<a, "cleanup">>) \/ UNCHANGED work
    OBVIOUS
  <2> QED BY <1>1, <1>3, <1>4, <2>1
<1>6. DiskTypes'
  BY DEF DiskTypes
<1>7. JournalTypes'
  BY DEF JournalTypes
<1>8. CoordTypes'
  <2>1. /\ hosted' = hosted
        /\ pending' = pending \/ pending' = [pending EXCEPT ![a] = None]
        /\ clean' = clean \/ clean' = clean \cup {a}
    BY DEF CommitProvider
  <2>2. /\ pending' \in [Attempts -> Scopes] /\ hosted' \subseteq Components
        /\ clean' \subseteq Attempts
    BY ONLY <2>1, CoordTypes, ScopeParts, a \in Attempts DEF CoordTypes
  <2>3. call' \in [Attempts -> Phases] /\ journaled' \subseteq Attempts
    <3>1. \E ph \in Phases : Phase(a, ph)
      BY SMTT(30) DEF Phases
    <3>2. call' \in [Attempts -> Phases]
      BY ONLY <3>1, CoordTypes DEF CoordTypes, Phase
    <3>3. journaled' = journaled \/ journaled' = journaled \cup {a}
      OBVIOUS
    <3> QED BY ONLY <3>2, <3>3, CoordTypes, a \in Attempts DEF CoordTypes
  <2>4. crashes' \in 0 .. MaxCrashes /\ restarts' \in 0 .. MaxRestarts
    BY SMTT(30), ProviderBoundsAssumption DEF CoordTypes
  <2>5. /\ last' \in Attempts \cup {None} /\ after' \subseteq Attempts
        /\ before' \in [Attempts -> [disk : [Files -> Contents], dir : BOOLEAN]]
    BY SMTT(30) DEF CoordTypes, DiskTypes
  <2> QED BY ONLY <2>2, <2>3, <2>4, <2>5 DEF CoordTypes
<1> QED BY <1>5, <1>6, <1>7, <1>8

\* A cleanup begins with the last component.
LEMMA CleanupReceived ==
    ASSUME WorkTypes, CoordTypes, NEW a \in Attempts, ReceiveCleanup(a)
    PROVE  Becomes(<<a, "cleanup">>, "undo", Len(Order), 0, None, TRUE)
<1>1. pending[a] # None => pending[a] \in SUBSET Components
  BY ScopeParts DEF CoordTypes
<1>2. (IF pending[a] # None THEN pending[a] ELSE hosted) \in SUBSET Components
  BY <1>1 DEF CoordTypes
<1>3. work \in [Calls -> Handlers] /\ Len(Order) \in Nat /\ <<a, "cleanup">> \in Calls
  BY Lengths, CallParts DEF WorkTypes
<1> QED BY <1>2, <1>3, Moves DEF ReceiveCleanup

\* A step of a cleanup's handler keeps the handlers in their places.
LEMMA CleanupTypes ==
    ASSUME DiskTypes, JournalTypes, WorkTypes, CoordTypes, Placed,
           NEW a \in Attempts, CleanupStep(a)
    PROVE  DiskTypes' /\ JournalTypes' /\ WorkTypes' /\ CoordTypes' /\ Placed'
<1> DEFINE t == <<a, "cleanup">>
<1>1. t \in Calls /\ t[1] = a /\ t = <<a, "cleanup">>
  BY CallParts
<1>2. Len(Order) \in Nat /\ Len(Payload[a]) \in Nat
  BY Lengths
<1> HIDE DEF t
<1>3. Becomes(t, "undo", Len(Order), 0, None, TRUE) \/ Becomes(t, "idle", 0, 0, None, TRUE)
  <2>1. work \in [Calls -> Handlers]
    BY DEF WorkTypes
  <2> QED BY <1>1, <2>1, CleanupReceived, Moves DEF CleanupStep, CleanupDone
<1>4. OneStep(t)
  BY <1>1, <1>2, <1>3 DEF OneStep, Becomes, PlacedAt, UndoSteps, RestoreSteps
<1>5. WorkTypes' /\ Placed'
  BY <1>1, <1>4, OneStepKeeps
<1> USE DEF CleanupStep, ReceiveCleanup, CleanupDone, diskVars, procVars, coordVars, histVars
<1>6. DiskTypes'
  BY DEF DiskTypes
<1>7. JournalTypes'
  BY DEF JournalTypes
<1>8. CoordTypes'
  BY ScopeParts DEF CoordTypes, Phases
<1> QED BY <1>5, <1>6, <1>7, <1>8

\* What is cut short is a file of a payload.
LEMMA CutTypes ==
    ASSUME DiskTypes, WorkTypes, Placed, NEW t \in Calls, NEW d \in CutShort(t)
    PROVE  /\ d \in [Files -> Contents]
           /\ \/ d = disk
              \/ /\ work[t].pc = "put_back" /\ work[t].file \in 1 .. Len(Payload[t[1]])
                 /\ work[t].journal.files[Payload[t[1]][work[t].file]] # Absent
                 /\ d = [disk EXCEPT ![Payload[t[1]][work[t].file]] = t[1]]
<1>1. t[1] \in Attempts /\ work[t].file \in Nat /\ Len(Payload[t[1]]) \in Nat
  BY CallParts, Moves, Lengths DEF WorkTypes
<1>2. \/ d = disk
      \/ /\ work[t].pc = "put_back" /\ work[t].file \in 1 .. Len(Payload[t[1]])
         /\ work[t].journal.files[Payload[t[1]][work[t].file]] # Absent
         /\ d = [disk EXCEPT ![Payload[t[1]][work[t].file]] = t[1]]
  <2>1. d # disk => \E j \in {work[t].file} \ {0} :
           /\ work[t].pc = "put_back"
           /\ work[t].journal.files[Payload[t[1]][j]] # Absent
           /\ d = [disk EXCEPT ![Payload[t[1]][j]] = t[1]]
    BY Zenon DEF CutShort, At
  <2>2. work[t].pc = "put_back" => work[t].file <= Len(Payload[t[1]])
    BY DEF Placed, PlacedAt
  <2> QED BY <1>1, <2>1, <2>2
<1>3. d \in [Files -> Contents]
  BY <1>1, <1>2, Lengths DEF DiskTypes, Contents
<1> QED BY <1>2, <1>3

\* A death of the node leaves idle handlers.
LEMMA CrashTypes ==
    ASSUME DiskTypes, JournalTypes, WorkTypes, CoordTypes, Placed,
           Crash
    PROVE  DiskTypes' /\ JournalTypes' /\ WorkTypes' /\ CoordTypes' /\ Placed'
<1>1. NoWork \in Handlers
  BY DEF NoWork, Handler, Handlers, Steps
<1>2. /\ work' \in [Calls -> Handlers]
      /\ \A t \in Calls : work'[t].pc = "idle" /\ work'[t].comp = 0 /\ work'[t].file = 0
                          /\ work'[t].journal = None
  BY <1>1 DEF Crash, NoWork, Handler
<1>3. WorkTypes'
  BY <1>2, Lengths, CallParts DEF WorkTypes
<1>4. Placed'
  BY <1>2 DEF Placed, PlacedAt, RestoreSteps, UndoSteps
<1>5. disk' \in [Files -> Contents] /\ dir' \in BOOLEAN
  <2>1. \A t \in Calls : (dir \/ DirCutShort(t)) \in BOOLEAN
    BY DEF DirCutShort
  <2> QED BY <2>1, CutTypes DEF Crash, DiskTypes
<1>6. DiskTypes'
  BY <1>5 DEF DiskTypes, Crash
<1>7. JournalTypes'
  BY DEF JournalTypes, Crash
<1>8. crashes' \in 0 .. MaxCrashes
  BY ProviderBoundsAssumption DEF CoordTypes, Crash
<1>9. CoordTypes'
  BY <1>8, ScopeParts DEF CoordTypes, Crash, histVars
<1> QED BY <1>3, <1>4, <1>6, <1>7, <1>9

\* Providers come and go, and nothing else changes.
Hosting ==
    \/ \E offer \in Offers : Attach(offer)
    \/ DropProviders

\* Attachment and detachment keep the handlers in their places.
LEMMA HostingTypes ==
    ASSUME DiskTypes, JournalTypes, WorkTypes, CoordTypes, Placed,
           Hosting
    PROVE  DiskTypes' /\ JournalTypes' /\ WorkTypes' /\ CoordTypes' /\ Placed'
<1>1. UNCHANGED <<diskVars, memory, pending, region, work, coordVars>>
  BY DEF Hosting, Attach, DropProviders
<1>2. hosted' \subseteq Components
  BY ProviderOffersAssumption DEF Hosting, Attach, DropProviders, CoordTypes
<1>3. DiskTypes' /\ JournalTypes' /\ WorkTypes'
  BY <1>1 DEF DiskTypes, JournalTypes, WorkTypes, diskVars
<1>4. CoordTypes'
  BY <1>1, <1>2 DEF CoordTypes, coordVars, histVars
<1>5. Placed'
  BY <1>1 DEF Placed, PlacedAt, AtFilesystem, KindIs
<1> QED BY <1>3, <1>4, <1>5

\* No handler runs at the start.
LEMMA InitTypes ==
    ASSUME Init
    PROVE  DiskTypes /\ JournalTypes /\ WorkTypes /\ CoordTypes /\ Placed
<1>1. NoWork \in Handlers
  BY DEF NoWork, Handler, Handlers, Steps
<1>2. /\ work \in [Calls -> Handlers]
      /\ \A t \in Calls : work[t].pc = "idle" /\ work[t].comp = 0 /\ work[t].file = 0
                          /\ work[t].journal = None
  BY <1>1 DEF Init, NoWork, Handler
<1>3. WorkTypes
  BY <1>2, Lengths, CallParts DEF WorkTypes
<1>4. Placed
  BY <1>2 DEF Placed, PlacedAt, RestoreSteps, UndoSteps
<1>5. DiskTypes
  BY DEF DiskTypes, Init, Contents
<1>6. JournalTypes
  BY DEF JournalTypes, Init
<1>7. CoordTypes
  BY <1>5, ScopeParts, ProviderBoundsAssumption DEF CoordTypes, Init, Phases, DiskTypes
<1> QED BY <1>3, <1>4, <1>5, <1>6, <1>7

------------------------------------------------------------------------------
(* One attempt at a time *)

HandlerAt(t) ==
    /\ work[t].pc # "idle" => call[t[1]] = Caller(t)
    /\ RestoreAt(t) /\ UndoAt(t)
Rooted == \A f \in Nested : disk[f] # Absent => dir

\* A handler that is idle has nothing to keep.
LEMMA IdleHandler ==
    ASSUME NEW t \in Calls, work[t].pc = "idle"
    PROVE  HandlerAt(t)
BY DEF HandlerAt, RestoreAt, UndoAt

\* What is open is not settled, and the other attempts are, with their handlers idle.
LEMMA Alone ==
    ASSUME CoordTypes, Handled, Resting, NEW a \in Attempts, ~Settled(a), NEW b \in Attempts,
           b # a
    PROVE  Settled(b) /\ ~Open(b) /\ \A t \in Calls : t[1] = b => work[t].pc = "idle"
<1>1. Settled(b) /\ ~Open(b)
  BY DEF Resting, Open
<1>2. \A t \in Calls : t[1] = b /\ work[t].pc # "idle" => call[b] \in {"restoring", "cleaning"}
  BY DEF Handled, Caller
<1> QED BY <1>1, <1>2 DEF Settled

\* A step that is about an open attempt leaves the others alone, and what they have on disk
\* as it is or as the attempt found it.
Local(a) ==
    /\ \A b \in Attempts : b # a => /\ durable'[b] = durable[b] /\ memory'[b] = memory[b]
                                    /\ call'[b] = call[b] /\ (b \in clean' <=> b \in clean)
    /\ \A t \in Calls : t[1] # a => work'[t] = work[t]
    /\ before' = before /\ last' = last /\ after' = after
    /\ \A f \in Files : disk'[f] \in {disk[f], before[a].disk[f], a}
    /\ \A t \in Calls : t[1] = a => HandlerAt(t)'
    /\ RecordAt(a)' /\ Undoable(a, disk)' /\ ContainedAt(a)' /\ Rooted'

\* A step about one open attempt keeps the invariant if it keeps that attempt's parts.
LEMMA LocalKeeps ==
    ASSUME DiskTypes, JournalTypes, WorkTypes, CoordTypes, OneAtATime, NEW a \in Attempts,
           Open(a), Open(a)', Local(a)
    PROVE  OneAtATime'
<1>1. \A b \in Attempts : b # a => /\ Settled(b) /\ ~Open(b)
                                   /\ \A t \in Calls : t[1] = b => work[t].pc = "idle"
  BY Alone DEF OneAtATime, Open
<1>2. Handled'
  <2> SUFFICES ASSUME NEW t \in Calls PROVE HandlerAt(t)'
    BY DEF Handled, HandlerAt
  <2>1. CASE t[1] = a
    BY <2>1 DEF Local
  <2>2. CASE t[1] # a
    <3>1. work'[t].pc = "idle"
      BY <1>1, <2>2, CallParts DEF Local
    <3> QED BY <3>1 DEF HandlerAt, RestoreAt, UndoAt
  <2> QED BY <2>1, <2>2
<1>3. Recorded'
  <2> SUFFICES ASSUME NEW b \in Attempts, b # a PROVE RecordAt(b)'
    BY DEF Recorded, Local
  <2>1. RecordAt(b) /\ Settled(b)
    BY <1>1 DEF OneAtATime, Recorded
  <2>2. Remembers(durable[b], b) => Remembers(durable[b], b)'
    BY DEF Local, Remembers
  <2>3. durable[b] # None => Remembers(durable[b], b)'
    BY <2>1, <2>2 DEF RecordAt
  <2> QED BY <2>1, <2>3 DEF RecordAt, Local, Settled, Remembers
<1>4. Undoables'
  <2> SUFFICES ASSUME NEW b \in Attempts, b # a, ~Committed(b)' PROVE Undoable(b, disk)'
    BY DEF Undoables, Local
  <2>1. ~Committed(b)
    BY DEF Local, Committed
  <2>2. Undoable(b, disk) /\ Undoable(b, before[a].disk)
    BY <2>1 DEF OneAtATime, Undoables, Opened, FoundAt
  <2> QED BY <2>2 DEF Undoable, Local
<1>5. Opened'
  <2>1. \A b \in Attempts : b # a => ~Open(b)'
    BY <1>1 DEF Local, Open, Settled
  <2>2. FoundAt(a)
    BY DEF OneAtATime, Opened
  <2>3. FoundAt(a)'
    <3>1. \A b \in Attempts \ {a} : ~Committed(b)' => Undoable(b, before[a].disk)'
      BY <2>2 DEF FoundAt, Local, Committed, Undoable
    <3>2. ((\A b \in after \ {a} : b \in clean) => Standing(before[a].disk))'
      BY <2>2 DEF FoundAt, Local, Standing, CoordTypes
    <3> QED BY <2>2, <3>1, <3>2 DEF FoundAt, Local
  <2> QED BY <2>1, <2>3 DEF Opened, Local
<1>6. Resting'
  <2>1. \A b, c \in Attempts : (Settled(b) \/ Settled(c) \/ b = c)'
    BY <1>1 DEF Local, Settled
  <2>2. \A b \in Attempts : (call[b] = "idle" \/ Committed(b) => b \notin after)'
    <3>1. call'[a] # "idle" /\ ~Committed(a)'
      BY DEF Open, Settled, Committed
    <3> QED BY <3>1 DEF OneAtATime, Resting, Local, Committed
  <2> QED BY <2>1, <2>2 DEF Resting, Local, Rooted
<1> QED BY <1>2, <1>3, <1>4, <1>5, <1>6 DEF OneAtATime

\* The attempt of a handler that runs is open, and its other handler is idle.
LEMMA Running ==
    ASSUME OneAtATime, NEW t \in Calls, work[t].pc # "idle"
    PROVE  /\ call[t[1]] = Caller(t) /\ Open(t[1]) /\ HandlerAt(t)
           /\ ContainedAt(t[1]) /\ FoundAt(t[1]) /\ RecordAt(t[1]) /\ Undoable(t[1], disk)
           /\ \A u \in Calls : u # t => work[u].pc = "idle" \/ u[1] # t[1]
<1>1. t[1] \in Attempts
  BY CallParts
<1>2. HandlerAt(t) /\ call[t[1]] = Caller(t) /\ Open(t[1]) /\ ~Committed(t[1])
  BY DEF OneAtATime, Handled, HandlerAt, Open, Settled, Caller, Committed
<1>3. \A u \in Calls : u # t => work[u].pc = "idle" \/ u[1] # t[1]
  <2> SUFFICES ASSUME NEW u \in Calls, work[u].pc # "idle", u[1] = t[1] PROVE u = t
    OBVIOUS
  <2>1. Caller(u) = Caller(t)
    BY <1>2 DEF OneAtATime, Handled
  <2>2. u[2] = t[2]
    BY <2>1, CallParts DEF Caller
  <2> QED BY <2>2, CallParts
<1> QED BY <1>1, <1>2, <1>3 DEF OneAtATime, Opened, Recorded, Undoables

\* A step of a handler that leaves files and durable journals alone.
Quiet(t) ==
    /\ disk' = disk /\ dir' = dir /\ durable' = durable /\ clean' = clean
    /\ before' = before /\ last' = last /\ after' = after
    /\ memory' = memory \/ memory' = [memory EXCEPT ![t[1]] = None]
    /\ \A u \in Calls : u # t => work'[u] = work[u]
    /\ \A b \in Attempts : b # t[1] => call'[b] = call[b]
    /\ call'[t[1]] \in {"restoring", "acked", "aborting", "cleaning"}
    /\ call'[t[1]] \in {"restoring", "acked"} => call[t[1]] = "restoring"
    /\ call'[t[1]] = "acked" => Written(t[1])

\* A handler that moves without touching files and durable journals is such a step.
LEMMA QuietIsLocal ==
    ASSUME JournalTypes, WorkTypes, OneAtATime, NEW t \in Calls, work[t].pc # "idle", Quiet(t),
           HandlerAt(t)'
    PROVE  Local(t[1]) /\ Open(t[1])'
<1> DEFINE a == t[1]
<1>1. a \in Attempts
  BY CallParts
<1>2. Open(a)'
  BY DEF Quiet, Open, Settled
<1>3. \A u \in Calls : u[1] = a => HandlerAt(u)'
  <2> SUFFICES ASSUME NEW u \in Calls, u # t, u[1] = a PROVE HandlerAt(u)'
    OBVIOUS
  <2>1. work'[u].pc = "idle"
    BY Running DEF Quiet
  <2> QED BY <2>1 DEF HandlerAt, RestoreAt, UndoAt
<1>4. ContainedAt(a)' /\ Undoable(a, disk)' /\ Rooted'
  <2>1. ContainedAt(a) /\ Undoable(a, disk) /\ Rooted
    BY Running DEF OneAtATime, Resting, Rooted
  <2> QED BY <2>1 DEF Quiet, ContainedAt, Undoable, Rooted
<1>5. RecordAt(a)'
  <2>1. RecordAt(a)
    BY Running
  <2>2. (durable[a] # None => Remembers(durable[a], a))'
    BY <2>1 DEF Quiet, RecordAt, Remembers
  <2>3. (memory[a] # None => memory[a] = durable[a])'
    BY <1>1, <2>1 DEF Quiet, RecordAt, JournalTypes
  <2>4. (call[a] \in {"acked", "applied"} => Written(a))'
    BY DEF Quiet, Written
  <2>5. (call[a] = "idle" => durable[a] = None)'
    BY DEF Quiet
  <2>6. (a \in clean => /\ durable[a] = None
                       /\ call[a] \in {"aborting", "cleaning", "ended", "failed", "granted"})'
    BY <2>1 DEF Quiet, RecordAt
  <2> QED BY <2>2, <2>3, <2>4, <2>5, <2>6 DEF RecordAt
<1>6. \A b \in Attempts : b # a => durable'[b] = durable[b] /\ memory'[b] = memory[b]
  BY DEF Quiet, JournalTypes
<1>7. \A u \in Calls : u[1] # a => work'[u] = work[u]
  BY DEF Quiet
<1> QED BY <1>2, <1>3, <1>4, <1>5, <1>6, <1>7 DEF Local, Quiet

\* The filesystem component is one.
LEMMA OneFilesystem ==
    /\ \A i \in 1 .. Len(Order) : Order[i] = "filesystem" => ~Passed(i) /\ Passed(i + 1) /\ Reached(i)
    /\ \A i \in 1 .. Len(Order) : Order[i] # "filesystem" => (Passed(i) <=> Passed(i + 1))
    /\ \A i \in 1 .. Len(Order) : Order[i] # "filesystem" => (Reached(i) => Reached(i - 1))
    /\ ~Passed(1) /\ Passed(Len(Order) + 1) /\ Reached(Len(Order)) /\ ~Reached(0)
<1>1. Len(Order) \in Nat
  BY Lengths
<1>2. PICK k \in 1 .. Len(Order) : \A j \in 1 .. Len(Order) : Order[j] = "filesystem" <=> j = k
  BY ProviderOrderAssumption DEF Components
<1>3. \A i \in Nat : (Passed(i) <=> k < i) /\ (Reached(i) <=> k <= i)
  BY <1>1, <1>2 DEF Passed, Reached
<1>4. k \in Nat /\ \A i \in 1 .. Len(Order) : i \in Nat /\ i + 1 \in Nat /\ i - 1 \in Nat
  BY <1>1
<1>5. \A i \in 1 .. Len(Order) : Order[i] = "filesystem" => ~Passed(i) /\ Passed(i + 1) /\ Reached(i)
  BY <1>1, <1>2, <1>3, <1>4
<1>6. \A i \in 1 .. Len(Order) : Order[i] # "filesystem" =>
         (Passed(i) <=> Passed(i + 1)) /\ (Reached(i) => Reached(i - 1))
  BY <1>1, <1>2, <1>3, <1>4
<1>7. ~Passed(1) /\ Passed(Len(Order) + 1) /\ Reached(Len(Order)) /\ ~Reached(0)
  BY <1>1, <1>2, <1>3
<1> QED BY <1>5, <1>6, <1>7

------------------------------------------------------------------------------
(* The restore handler *)

\* Steps that change no file and no durable journal.
LEMMA RestoreQuiet ==
    ASSUME DiskTypes, JournalTypes, WorkTypes, CoordTypes, Placed, OneAtATime,
           NEW a \in Attempts,
           \/ ReceiveRestore(a) \/ ProviderMissing(a) \/ PayloadFails(a) \/ ApplyCallback(a)
           \/ ApplyRegions(a) \/ Scan(a) \/ FilesWritten(a) \/ RestoreDone(a) \/ RestoreFailed(a)
           \/ Persist(a) /\ UNCHANGED <<durable, memory>> /\ GivesUp(<<a, "restore">>)
    PROVE  Local(a) /\ Open(a)'
<1> DEFINE t == <<a, "restore">>
<1>1. t \in Calls /\ t[1] = a /\ t[2] = "restore" /\ t = <<a, "restore">>
  BY CallParts
<1>2. work[t].comp \in Nat /\ work[t].file \in Nat /\ PlacedAt(t) /\ RestoreMove(a, t)
  BY <1>1, Moves, RestoreMoves DEF WorkTypes, Placed
<1>3. Len(Order) \in Nat /\ Len(Payload[a]) \in Nat /\ \A f \in PayloadFiles(a) : \E i \in 1 .. Len(Payload[a]) : f = Payload[a][i]
  BY Lengths DEF PayloadFiles
<1> HIDE DEF t
<1>4. work[t].pc # "idle"
  BY <1>1 DEF ReceiveRestore, ProviderMissing, PayloadFails, ApplyCallback, ApplyRegions, Scan,
              FilesWritten, RestoreDone, RestoreFailed, Persist, At, Turn, Component
<1>5. /\ call[a] = "restoring" /\ HandlerAt(t) /\ ContainedAt(a) /\ RecordAt(a)
  BY <1>1, <1>4, Running DEF Caller
<1>6. CASE /\ Advances(t)
           /\ \/ ReceiveRestore(a) \/ ProviderMissing(a) \/ ApplyCallback(a)
              \/ ApplyRegions(a) \/ FilesWritten(a)
  <2>1. Becomes(t, "component", work[t].comp + 1, 0, None, TRUE)
    BY <1>2, <1>6 DEF RestoreMove
  <2>2. Quiet(t)
    BY <1>1, <1>5, <1>6, <2>1 DEF Quiet, Becomes, ReceiveRestore, ProviderMissing,
       ApplyCallback, ApplyRegions, FilesWritten, diskVars, procVars, coordVars, histVars
  <2>3. /\ durable[a] # None <=> Passed(work[t].comp + 1)
        /\ Passed(work[t].comp + 1) => Written(a)
    <3>1. CASE ReceiveRestore(a)
      <4>1. work[t].comp = 0 /\ durable[a] = None
        BY <1>1, <1>2, <1>5, <3>1 DEF ReceiveRestore, At, HandlerAt, RestoreAt, PlacedAt
      <4> QED BY <4>1, OneFilesystem
    <3>2. CASE ApplyCallback(a) \/ ApplyRegions(a)
      <4>1. work[t].pc = "component" /\ work[t].comp \in 1 .. Len(Order) /\ Order[work[t].comp] # "filesystem"
        BY <1>1, <1>2, <1>3, <3>2 DEF ApplyCallback, ApplyRegions, Turn, Component, At, KindIs,
           PlacedAt
      <4> QED BY <1>1, <1>5, <4>1, OneFilesystem DEF HandlerAt, RestoreAt
    <3>3. CASE ProviderMissing(a)
      <4>1. work[t].pc = "component" /\ work[t].comp \in 1 .. Len(Order)
        BY <1>1, <1>2, <1>3, <3>3 DEF ProviderMissing, Turn, At, PlacedAt
      <4>2. work[t].comp \in Optional
        <5>1. ~Becomes(t, "undo", work[t].comp - 1, 0, None, TRUE)
          BY <2>1 DEF Becomes
        <5>2. work[t].comp > 0
          BY <1>3, <4>1
        <5>3. ~Undo(t, work[t].comp - 1, work[t].scope)
          BY Zenon, <1>2, <5>1, <5>2 DEF RestoreMove
        <5> QED BY <1>1, <3>3, <5>3 DEF ProviderMissing
      <4>3. Order[work[t].comp] # "filesystem"
        BY <4>1, <4>2, ProviderOptionalAssumption DEF Components
      <4> QED BY <1>1, <1>5, <4>1, <4>3, OneFilesystem DEF HandlerAt, RestoreAt
    <3>4. CASE FilesWritten(a)
      <4>1. work[t].pc = "write" /\ work[t].file > Len(Payload[a])
        BY <1>1, <3>4 DEF FilesWritten, At
      <4>2. work[t].comp \in 1 .. Len(Order) /\ Order[work[t].comp] = "filesystem"
        BY <1>2, <4>1 DEF PlacedAt, AtFilesystem, KindIs
      <4>3. durable[a] # None /\ \A i \in 1 .. Len(Payload[a]) : disk[Payload[a][i]] = a
        BY <1>1, <1>2, <1>3, <1>5, <4>1 DEF HandlerAt, RestoreAt
      <4> QED BY <1>3, <4>2, <4>3, OneFilesystem DEF Written
    <3> QED BY <1>6, <3>1, <3>2, <3>3, <3>4
  <2>4. call'[a] = "restoring" /\ durable' = durable /\ disk' = disk
    BY <1>5, <1>6 DEF ReceiveRestore, ProviderMissing, ApplyCallback, ApplyRegions,
       FilesWritten, coordVars, diskVars
  <2>5. HandlerAt(t)'
    BY <1>1, <2>1, <2>3, <2>4 DEF Becomes, HandlerAt, RestoreAt, UndoAt, Caller, Written
  <2> QED BY <1>1, <1>4, <2>2, <2>5, QuietIsLocal
<1>7. CASE \/ /\ GivesUp(t)
              /\ \/ ApplyCallback(a) \/ Scan(a)
                 \/ Persist(a) /\ UNCHANGED <<durable, memory>>
           \/ /\ Undo(t, work[t].comp - 1, work[t].scope)
              /\ ProviderMissing(a) \/ PayloadFails(a)
  <2>1. \E i \in Nat : Becomes(t, "undo", i, 0, None, TRUE)
    <3>1. ProviderMissing(a) \/ PayloadFails(a) => work[t].comp > 0 /\ work[t].comp - 1 \in Nat
      BY <1>1, <1>2 DEF ProviderMissing, PayloadFails, Turn, Component, At, PlacedAt
    <3> QED BY <1>2, <1>7, <3>1 DEF RestoreMove
  <2>2. Quiet(t)
    <3>1. CASE Persist(a) /\ UNCHANGED <<durable, memory>>
      BY <1>1, <1>5, <2>1, <3>1 DEF Quiet, Becomes, Persist, coordVars, histVars
    <3>2. CASE ApplyCallback(a) \/ Scan(a) \/ ProviderMissing(a) \/ PayloadFails(a)
      BY <1>1, <1>5, <2>1, <3>2 DEF Quiet, Becomes, ApplyCallback, Scan, ProviderMissing,
         PayloadFails, diskVars, procVars, coordVars, histVars
    <3> QED BY <1>7, <3>1, <3>2
  <2>3. call'[a] = "restoring"
    BY <1>5, <1>7 DEF ApplyCallback, Scan, Persist, ProviderMissing, PayloadFails, coordVars
  <2>4. HandlerAt(t)'
    BY <1>1, <2>1, <2>3 DEF Becomes, HandlerAt, RestoreAt, UndoAt, Caller
  <2> QED BY <1>1, <1>4, <2>2, <2>4, QuietIsLocal
<1>8. CASE Scan(a) /\ Handle(t, "persist", 0, ScanFiles(a))
  <2>1. Becomes(t, "persist", work[t].comp, 0, ScanFiles(a), work[t].ok)
    BY <1>2, <1>8 DEF RestoreMove
  <2>2. Quiet(t)
    BY <1>1, <1>5, <1>8, <2>1 DEF Quiet, Becomes, Scan, procVars, coordVars, histVars
  <2>3. work[t].pc = "component" /\ work[t].comp \in 1 .. Len(Order) /\ Order[work[t].comp] = "filesystem"
    BY <1>1, <1>2, <1>3, <1>8 DEF Scan, Turn, Component, At, KindIs, PlacedAt
  <2>4. durable[a] = None
    BY <1>1, <1>5, <2>3, OneFilesystem DEF HandlerAt, RestoreAt
  <2>5. Remembers(ScanFiles(a), a)
    BY <1>5, <2>4, Scanned DEF Remembers, ContainedAt
  <2>6. call'[a] = "restoring"
    BY <1>5, <1>8 DEF Scan, coordVars
  <2>7. HandlerAt(t)'
    BY <1>1, <2>1, <2>2, <2>4, <2>5, <2>6 DEF Becomes, Quiet, HandlerAt, RestoreAt, UndoAt,
       Caller, Remembers
  <2> QED BY <1>1, <1>4, <2>2, <2>7, QuietIsLocal
<1>9. CASE RestoreDone(a) \/ RestoreFailed(a)
  <2>1. Becomes(t, "idle", 0, 0, None, TRUE)
    BY <1>1, <1>2, <1>9 DEF RestoreMove, RestoreDone, RestoreFailed
  <2>2. RestoreDone(a) => Written(a)
    <3>1. RestoreDone(a) => work[t].pc = "component" /\ work[t].comp > Len(Order)
      BY <1>1 DEF RestoreDone, At
    <3>2. work[t].comp <= Len(Order) + 1
      BY <1>1 DEF WorkTypes
    <3>3. RestoreDone(a) => Passed(work[t].comp)
      BY <1>2, <1>3, <3>1, <3>2, OneFilesystem
    <3> QED BY <1>1, <1>5, <3>1, <3>3 DEF HandlerAt, RestoreAt
  <2>3. Quiet(t)
    BY <1>1, <1>5, <1>9, <2>1, <2>2 DEF Quiet, Becomes, RestoreDone, RestoreFailed,
       AnswerRestore, diskVars, procVars, histVars, CoordTypes
  <2>4. HandlerAt(t)'
    BY <2>1 DEF Becomes, HandlerAt, RestoreAt, UndoAt
  <2> QED BY <1>1, <1>4, <2>3, <2>4, QuietIsLocal
<1>10. Turn(t) => work[t].comp \in Components
  BY <1>2, <1>3 DEF Turn, At, PlacedAt, Components
<1>11. FilesWritten(a) => work[t].comp \in Components
  BY <1>1, <1>2 DEF FilesWritten, At, PlacedAt, AtFilesystem, Components
<1> QED
  BY <1>1, <1>6, <1>7, <1>8, <1>9, <1>10, <1>11 DEF ReceiveRestore, ProviderMissing,
     PayloadFails, ApplyCallback, ApplyRegions, Scan, FilesWritten, Persist, Component, Advances,
     GivesUp

\* The journal is persisted before the first write.
LEMMA PersistLocal ==
    ASSUME DiskTypes, JournalTypes, WorkTypes, CoordTypes, Placed, OneAtATime,
           NEW a \in Attempts, Persist(a)
    PROVE  Local(a) /\ Open(a)'
<1> DEFINE t == <<a, "restore">>
<1>1. t \in Calls /\ t[1] = a /\ t[2] = "restore" /\ t = <<a, "restore">>
  BY CallParts
<1>2. PlacedAt(t) /\ RestoreMove(a, t)
  BY <1>1, RestoreMoves DEF Placed
<1> HIDE DEF t
<1>3. work[t].pc = "persist"
  BY <1>1 DEF Persist, At
<1>4. /\ call[a] = "restoring" /\ HandlerAt(t) /\ ContainedAt(a) /\ RecordAt(a) /\ FoundAt(a)
      /\ \A u \in Calls : u # t => work[u].pc = "idle" \/ u[1] # a
  BY <1>1, <1>3, Running DEF Caller
<1>5. CASE UNCHANGED <<durable, memory>> /\ Undo(t, work[t].comp, Taken(t))
  <2>1. GivesUp(t)
    BY <1>2, <1>3, <1>5 DEF GivesUp, PlacedAt, AtFilesystem, Components
  <2> QED BY <1>1, <1>5, <2>1, RestoreQuiet
<1>6. CASE /\ Handle(t, "write", 1, None)
           /\ durable' = [durable EXCEPT ![a] = work[t].journal]
           /\ memory' = [memory EXCEPT ![a] = work[t].journal]
  <2>1. Becomes(t, "write", work[t].comp, 1, None, work[t].ok)
    BY <1>2, <1>6 DEF RestoreMove
  <2>2. /\ durable'[a] = work[t].journal /\ memory'[a] = work[t].journal /\ work[t].journal # None
        /\ \A b \in Attempts : b # a => durable'[b] = durable[b] /\ memory'[b] = memory[b]
    BY <1>2, <1>3, <1>6 DEF JournalTypes, PlacedAt
  <2>3. /\ disk' = disk /\ dir' = dir /\ call' = call /\ clean' = clean /\ before' = before
        /\ last' = last /\ after' = after
    BY DEF Persist, coordVars, histVars
  <2>4. durable[a] = None /\ Remembers(work[t].journal, a)
    BY <1>1, <1>3, <1>4 DEF HandlerAt, RestoreAt
  <2>5. \A u \in Calls : u[1] = a => HandlerAt(u)'
    <3>1. HandlerAt(t)'
      BY <1>1, <1>4, <2>1, <2>2, <2>3 DEF Becomes, HandlerAt, RestoreAt, UndoAt, Caller
    <3>2. \A u \in Calls : u # t /\ u[1] = a => work'[u].pc = "idle"
      BY <1>4, <2>1 DEF Becomes
    <3> QED BY <3>1, <3>2 DEF HandlerAt, RestoreAt, UndoAt
  <2>6. RecordAt(a)'
    BY <1>4, <2>2, <2>3, <2>4 DEF RecordAt, Remembers
  <2>7. ContainedAt(a)' /\ Undoable(a, disk)' /\ Rooted'
    BY <1>4, <2>2, <2>3, <2>4 DEF ContainedAt, FoundAt, Undoable, Rooted, OneAtATime, Resting
  <2>8. Open(a)'
    BY <1>4, <2>3 DEF Open, Settled
  <2> QED BY <1>1, <2>1, <2>2, <2>3, <2>5, <2>6, <2>7, <2>8 DEF Local, Becomes
<1> QED BY <1>1, <1>5, <1>6 DEF Persist

\* A write stays within the payload, and the journal knows the file.
LEMMA WriteLocal ==
    ASSUME DiskTypes, JournalTypes, WorkTypes, CoordTypes, Placed, OneAtATime,
           NEW a \in Attempts, WriteFile(a)
    PROVE  Local(a) /\ Open(a)'
<1> DEFINE t == <<a, "restore">>
           f == Payload[a][work[t].file]
<1>1. t \in Calls /\ t[1] = a /\ t[2] = "restore" /\ t = <<a, "restore">>
  BY CallParts
<1>2. work[t].comp \in Nat /\ work[t].file \in Nat /\ PlacedAt(t) /\ RestoreMove(a, t)
  BY <1>1, Moves, RestoreMoves DEF WorkTypes, Placed
<1> HIDE DEF t
<1>3. work[t].pc = "write" /\ work[t].file \in 1 .. Len(Payload[a])
  BY <1>1, <1>2, Lengths DEF WriteFile, At, PlacedAt
<1>4. f \in PayloadFiles(a) /\ f \in Files
  BY <1>3, Lengths
<1>5. /\ call[a] = "restoring" /\ HandlerAt(t) /\ ContainedAt(a) /\ RecordAt(a) /\ FoundAt(a)
      /\ Undoable(a, disk)
      /\ \A u \in Calls : u # t => work[u].pc = "idle" \/ u[1] # a
  BY <1>1, <1>3, Running DEF Caller
<1>6. durable[a] # None /\ Remembers(durable[a], a)
  BY <1>1, <1>3, <1>5 DEF HandlerAt, RestoreAt, RecordAt
<1>7. /\ disk' = disk \/ (disk' = [disk EXCEPT ![f] = a] /\ (f \in Nested => dir'))
      /\ dir => dir'
      /\ dir' => dir \/ f \in Nested
  BY <1>1 DEF WriteFile, DiskTypes
<1>8. \/ Handle(t, "write", work[t].file + 1, None) /\ disk' = [disk EXCEPT ![f] = a]
      \/ GivesUp(t)
  <2>1. work[t].comp \in Components
    BY <1>2, <1>3 DEF PlacedAt, AtFilesystem, Components
  <2> QED BY <1>1, <2>1 DEF WriteFile, GivesUp
<1>9. /\ durable' = durable /\ memory' = memory /\ call' = call /\ clean' = clean /\ before' = before
      /\ last' = last /\ after' = after
  BY DEF WriteFile, procVars, coordVars, histVars
<1>10. \/ Becomes(t, "write", work[t].comp, work[t].file + 1, None, work[t].ok)
          /\ disk' = [disk EXCEPT ![f] = a]
       \/ Becomes(t, "undo", work[t].comp, 0, None, TRUE)
  BY <1>2, <1>8 DEF RestoreMove
<1>11. \A g \in Files : disk'[g] = disk[g] \/ (g = f /\ disk'[g] = a)
  BY <1>7 DEF DiskTypes
<1> HIDE DEF f
<1>12. HandlerAt(t)'
  <2>1. CASE Becomes(t, "undo", work[t].comp, 0, None, TRUE)
    BY <1>1, <1>5, <1>9, <2>1 DEF Becomes, HandlerAt, RestoreAt, UndoAt, Caller
  <2>2. CASE Becomes(t, "write", work[t].comp, work[t].file + 1, None, work[t].ok)
             /\ disk' = [disk EXCEPT ![f] = a]
    <3>1. \A i \in 1 .. Len(Payload[a]) : i < work[t].file + 1 => disk'[Payload[a][i]] = a
      <4> SUFFICES ASSUME NEW i \in 1 .. Len(Payload[a]), i < work[t].file + 1
                   PROVE  disk'[Payload[a][i]] = a
        OBVIOUS
      <4>1. Payload[a][i] \in Files
        BY Lengths
      <4>2. i # work[t].file => disk[Payload[a][i]] = a
        BY <1>1, <1>2, <1>3, <1>5, Lengths DEF HandlerAt, RestoreAt
      <4>3. CASE i = work[t].file
        BY <2>2, <4>1, <4>3 DEF DiskTypes, f
      <4>4. CASE i # work[t].file
        BY <1>11, <4>1, <4>2, <4>4
      <4> QED BY <4>3, <4>4
    <3> QED BY <1>1, <1>5, <1>6, <1>9, <2>2, <3>1 DEF Becomes, HandlerAt, RestoreAt, UndoAt,
               Caller
  <2> QED BY <1>10, <2>1, <2>2
<1>13. \A u \in Calls : u[1] = a => HandlerAt(u)'
  <2>1. \A u \in Calls : u # t /\ u[1] = a => work'[u].pc = "idle"
    BY <1>5, <1>10 DEF Becomes
  <2> QED BY <1>12, <2>1 DEF HandlerAt, RestoreAt, UndoAt
<1>14. RecordAt(a)'
  BY <1>5, <1>9 DEF RecordAt, Remembers
<1>15. ContainedAt(a)'
  BY <1>4, <1>5, <1>6, <1>7, <1>9, <1>11 DEF ContainedAt
<1>16. Undoable(a, disk)'
  BY <1>4, <1>5, <1>6, <1>9, <1>11 DEF Undoable, Remembers
<1>17. Rooted'
  BY <1>7, <1>11, ProviderFilesAssumption DEF Rooted, OneAtATime, Resting
<1>18. Open(a)'
  BY <1>5, <1>9 DEF Open, Settled
<1> QED BY <1>1, <1>9, <1>10, <1>11, <1>13, <1>14, <1>15, <1>16, <1>17, <1>18 DEF Local, Becomes

\* Every step of do_restore keeps the invariant.
LEMMA RestoreKeeps ==
    ASSUME DiskTypes, JournalTypes, WorkTypes, CoordTypes, Placed, OneAtATime,
           NEW a \in Attempts, RestoreStep(a)
    PROVE  OneAtATime'
<1>1. Local(a) /\ Open(a)'
  BY RestoreQuiet, PersistLocal, WriteLocal DEF RestoreStep
<1>2. Open(a)
  <2>1. <<a, "restore">> \in Calls /\ <<a, "restore">>[1] = a /\ work[<<a, "restore">>].pc # "idle"
    BY CallParts DEF RestoreStep, ReceiveRestore, ProviderMissing, PayloadFails,
       ApplyCallback, ApplyRegions, Scan, Persist, WriteFile, FilesWritten, RestoreDone,
       RestoreFailed, At, Turn, Component
  <2> QED BY <2>1, Running
<1> QED BY <1>1, <1>2, LocalKeeps

------------------------------------------------------------------------------
(* A handler that rolls back *)

\* Steps that change no file and no durable journal.
LEMMA UndoQuiet ==
    ASSUME DiskTypes, JournalTypes, WorkTypes, CoordTypes, Placed, OneAtATime, NEW t \in Calls,
           UndoStep(t),
           \/ UndoPasses(t) \/ UndoCallback(t) \/ UndoRegions(t) \/ TakeJournal(t)
           \/ PutBackDone(t) \/ RemoveRoot(t) \/ (UndoFails(t) /\ disk' = disk)
    PROVE  Local(t[1]) /\ Open(t[1])'
<1> DEFINE a == t[1]
<1>1. a \in Attempts /\ t[2] \in {"restore", "cleanup"} /\ a = t[1]
  BY CallParts
<1>2. /\ work[t].comp \in Nat /\ work[t].file \in Nat /\ work[t].ok \in BOOLEAN /\ PlacedAt(t)
      /\ UndoMove(t) /\ work[t].comp > 0 /\ work[t].pc \in UndoSteps /\ work[t].pc # "idle"
  BY Moves, UndoMoves, UndoStepAt DEF WorkTypes, Placed, UndoSteps
<1>3. Len(Order) \in Nat /\ Len(Payload[a]) \in Nat
  BY <1>1, Lengths
<1>4. call[a] = Caller(t) /\ HandlerAt(t) /\ ContainedAt(a) /\ RecordAt(a)
  BY <1>2, Running
<1>5. \/ Becomes(t, "undo", work[t].comp - 1, 0, None, work[t].ok)
      \/ UndoFails(t) /\ Becomes(t, "undo", work[t].comp - 1, 0, None, FALSE)
      \/ /\ UndoPasses(t) \/ UndoCallback(t)
         /\ Becomes(t, "undo", work[t].comp - 1, 0, None, FALSE)
      \/ /\ TakeJournal(t) /\ TheJournal(a) # None
         /\ Becomes(t, "put_back", work[t].comp, Len(Payload[a]), TheJournal(a), work[t].ok)
      \/ /\ PutBackDone(t)
         /\ Becomes(t, "remove_dirs", work[t].comp, work[t].file, work[t].journal, work[t].ok)
  BY <1>2, Passes DEF UndoMove, UndoCallback, UndoRegions, TakeJournal, TheJournal, PutBackDone,
     RemoveRoot, UndoFails
<1>6. /\ disk' = disk /\ dir' = dir /\ durable' = durable /\ clean' = clean /\ call' = call
      /\ before' = before /\ last' = last /\ after' = after
      /\ memory' = memory \/ memory' = [memory EXCEPT ![a] = None]
  BY DEF UndoPasses, UndoCallback, UndoRegions, TakeJournal, PutBackDone, RemoveRoot,
         UndoFails, diskVars, procVars, coordVars, histVars
<1>7. Quiet(t)
  <2>1. \A u \in Calls : u # t => work'[u] = work[u]
    BY <1>5 DEF Becomes
  <2>2. call[a] \in {"restoring", "cleaning"}
    BY <1>4 DEF Caller
  <2> QED BY <1>6, <2>1, <2>2 DEF Quiet
<1>8. HandlerAt(t)'
  <2>0. call'[a] = Caller(t)
    BY <1>4, <1>6
  <2>1. CASE Becomes(t, "undo", work[t].comp - 1, 0, None, FALSE)
    BY <2>0, <2>1 DEF Becomes, HandlerAt, RestoreAt, UndoAt, Caller
  <2>2. CASE Becomes(t, "undo", work[t].comp - 1, 0, None, work[t].ok)
    <3>1. t[2] = "cleanup" /\ work[t].ok => durable[a] = None \/ Reached(work[t].comp - 1)
      <4>1. CASE UndoCallback(t) \/ UndoRegions(t)
        <5>1. work[t].pc = "undo" /\ Order[work[t].comp] # "filesystem"
          BY <4>1 DEF UndoCallback, UndoRegions, At, Back, KindIs
        <5>2. work[t].comp \in 1 .. Len(Order)
          BY <1>2, <1>3, <5>1 DEF PlacedAt, UndoSteps
        <5> QED BY <1>4, <5>1, <5>2, OneFilesystem DEF HandlerAt, UndoAt
      <4>2. CASE TakeJournal(t)
        <5>1. TheJournal(a) = None
          BY <2>2, <1>2, <4>2 DEF TakeJournal, TheJournal, UndoMove, Becomes
        <5> QED BY <1>4, <5>1 DEF TheJournal, RecordAt
      <4>3. CASE RemoveRoot(t)
        BY <1>4, <4>3 DEF RemoveRoot, At, HandlerAt, UndoAt
      <4>4. CASE UndoFails(t)
        <5>1. Becomes(t, "undo", work[t].comp - 1, 0, None, FALSE)
          BY <1>2, <4>4 DEF UndoFails, UndoMove
        <5> QED BY <2>2, <5>1 DEF Becomes
      <4>5. CASE PutBackDone(t)
        <5>1. Becomes(t, "remove_dirs", work[t].comp, work[t].file, work[t].journal, work[t].ok)
          BY <1>2, <4>5 DEF PutBackDone, UndoMove
        <5> QED BY <2>2, <5>1 DEF Becomes
      <4>6. CASE UndoPasses(t)
        <5>1. work[t].pc = "undo"
          BY <4>6 DEF UndoPasses, Back, At
        <5>2. work[t].comp \in 1 .. Len(Order)
          BY <1>2, <1>3, <5>1 DEF PlacedAt, UndoSteps
        <5>3. CASE KindIs(t, "filesystem")
          <6>1. Becomes(t, "undo", work[t].comp - 1, 0, None, FALSE)
            BY <1>2, <4>6, <5>3, Passes DEF UndoMove
          <6> QED BY <2>2, <6>1 DEF Becomes
        <5>4. CASE ~KindIs(t, "filesystem")
          BY <1>4, <5>1, <5>2, <5>4, OneFilesystem DEF HandlerAt, UndoAt, KindIs
        <5> QED BY <5>3, <5>4
      <4> QED BY <4>1, <4>2, <4>3, <4>4, <4>5, <4>6
    <3> QED BY <2>0, <2>2, <3>1, <1>6 DEF Becomes, HandlerAt, RestoreAt, UndoAt, Caller
  <2>3. CASE /\ TakeJournal(t) /\ TheJournal(a) # None
             /\ Becomes(t, "put_back", work[t].comp, Len(Payload[a]), TheJournal(a), work[t].ok)
    <3>1. TheJournal(a) = durable[a] /\ memory'[a] = None
      BY <1>1, <1>4, <2>3 DEF TheJournal, RecordAt, TakeJournal, JournalTypes
    <3> QED BY <1>3, <1>6, <2>0, <2>3, <3>1 DEF Becomes, HandlerAt, RestoreAt, UndoAt, Caller
  <2>4. CASE /\ PutBackDone(t)
             /\ Becomes(t, "remove_dirs", work[t].comp, work[t].file, work[t].journal, work[t].ok)
    <3>1. work[t].pc = "put_back" /\ work[t].file = 0
      BY <2>4 DEF PutBackDone, At
    <3>2. /\ durable[a] # None /\ work[t].journal = durable[a] /\ memory[a] = None
          /\ \A i \in 1 .. Len(Payload[a]) : disk[Payload[a][i]] = before[a].disk[Payload[a][i]]
      BY <1>3, <1>4, <3>1 DEF HandlerAt, UndoAt
    <3>3. \A f \in Files : disk[f] = before[a].disk[f]
      BY <1>4, <3>2 DEF ContainedAt, PayloadFiles
    <3>4. disk = before[a].disk
      BY <1>1, <3>3 DEF DiskTypes, CoordTypes
    <3> QED BY <1>1, <1>6, <2>0, <2>4, <3>2, <3>4 DEF Becomes, HandlerAt, RestoreAt, UndoAt,
               Caller, JournalTypes
  <2> QED BY <1>5, <2>1, <2>2, <2>3, <2>4
<1> QED BY <1>2, <1>7, <1>8, QuietIsLocal

\* A step of a handler under way, as the steps below use it.
Undoing(t) ==
    LET a == t[1] IN
    /\ a \in Attempts /\ t[2] \in {"restore", "cleanup"}
    /\ work[t].comp \in Nat /\ work[t].file \in Nat /\ PlacedAt(t) /\ UndoMove(t) /\ work[t].comp > 0
    /\ Len(Payload[a]) \in Nat
    /\ call[a] = Caller(t) /\ HandlerAt(t) /\ ContainedAt(a) /\ RecordAt(a) /\ FoundAt(a)
    /\ Undoable(a, disk)
    /\ \A u \in Calls : u # t => work[u].pc = "idle" \/ u[1] # a

\* What a rollback finds, from the invariant.
LEMMA UndoingHolds ==
    ASSUME DiskTypes, JournalTypes, WorkTypes, CoordTypes, Placed, OneAtATime, NEW t \in Calls,
           UndoStep(t)
    PROVE  Undoing(t)
<1>1. /\ work[t].comp \in Nat /\ work[t].file \in Nat /\ PlacedAt(t)
      /\ UndoMove(t) /\ work[t].comp > 0 /\ work[t].pc \in UndoSteps /\ work[t].pc # "idle"
  BY Moves, UndoMoves, UndoStepAt DEF WorkTypes, Placed, UndoSteps
<1> QED BY <1>1, CallParts, Lengths, Running DEF Undoing

\* It is enough to look at the handler and its attempt.
LEMMA UndoIsLocal ==
    ASSUME CoordTypes, NEW t \in Calls, Undoing(t), HandlerAt(t)', RecordAt(t[1])',
           Undoable(t[1], disk)', ContainedAt(t[1])', Rooted',
           \A u \in Calls : u # t => work'[u] = work[u],
           call' = call, clean' = clean, before' = before, last' = last, after' = after,
           \A b \in Attempts : b # t[1] => durable'[b] = durable[b] /\ memory'[b] = memory[b],
           \A f \in Files : disk'[f] \in {disk[f], before[t[1]].disk[f], t[1]}
    PROVE  Local(t[1]) /\ Open(t[1])'
<1>1. Open(t[1])'
  BY DEF Undoing, Caller, Open, Settled
<1>2. \A u \in Calls : u[1] = t[1] => HandlerAt(u)'
  <2>1. \A u \in Calls : u # t /\ u[1] = t[1] => work'[u].pc = "idle"
    BY DEF Undoing
  <2> QED BY <2>1 DEF HandlerAt, RestoreAt, UndoAt
<1> QED BY <1>1, <1>2 DEF Local

\* A file is put back as it was found.
LEMMA PutBackLocal ==
    ASSUME DiskTypes, JournalTypes, WorkTypes, CoordTypes, Placed, OneAtATime, NEW t \in Calls,
           PutBack(t), Undoing(t)
    PROVE  Local(t[1]) /\ Open(t[1])'
<1> DEFINE a == t[1]
           f == Payload[a][work[t].file]
<1>1. a \in Attempts /\ a = t[1] /\ Len(Payload[a]) \in Nat /\ work[t].file \in Nat
  BY DEF Undoing
<1>2. work[t].pc = "put_back" /\ work[t].file \in 1 .. Len(Payload[a])
  <2>1. work[t].pc = "put_back" /\ work[t].file > 0
    BY DEF PutBack, At
  <2> QED BY <1>1, <2>1 DEF Undoing, PlacedAt
<1>3. f \in PayloadFiles(a) /\ f \in Files
  BY <1>1, <1>2, Lengths
<1>4. /\ durable[a] # None /\ work[t].journal = durable[a] /\ memory[a] = None
      /\ \A i \in 1 .. Len(Payload[a]) : i > work[t].file => disk[Payload[a][i]] = before[a].disk[Payload[a][i]]
  BY <1>2 DEF Undoing, HandlerAt, UndoAt
<1>5. work[t].journal.files[f] = before[a].disk[f]
  BY <1>3, <1>4 DEF Undoing, RecordAt, Remembers
<1>6. /\ disk' = [disk EXCEPT ![f] = before[a].disk[f]]
      /\ dir' = (dir \/ (before[a].disk[f] # Absent /\ f \in Nested))
  BY <1>5 DEF PutBack
<1>7. Becomes(t, "put_back", work[t].comp, work[t].file - 1, work[t].journal, work[t].ok)
  BY DEF PutBack, Undoing, UndoMove
<1>8. /\ durable' = durable /\ memory' = memory /\ call' = call /\ clean' = clean /\ before' = before
      /\ last' = last /\ after' = after
  BY DEF PutBack, procVars, coordVars, histVars
<1>9. \A g \in Files : disk'[g] = IF g = f THEN before[a].disk[g] ELSE disk[g]
  BY <1>6 DEF DiskTypes
<1> HIDE DEF f
<1>10. HandlerAt(t)'
  <2>1. \A i \in 1 .. Len(Payload[a]) : i > work[t].file - 1 =>
           disk'[Payload[a][i]] = before[a].disk[Payload[a][i]]
    <3> SUFFICES ASSUME NEW i \in 1 .. Len(Payload[a]), i > work[t].file - 1
                 PROVE  disk'[Payload[a][i]] = before[a].disk[Payload[a][i]]
      OBVIOUS
    <3>1. Payload[a][i] \in Files
      BY <1>1, Lengths
    <3>2. CASE i = work[t].file
      BY <1>9, <3>1, <3>2 DEF f
    <3>3. CASE i > work[t].file
      BY <1>4, <1>9, <3>1, <3>3
    <3> QED BY <1>1, <3>2, <3>3
  <2> QED BY <1>4, <1>7, <1>8, <2>1 DEF Becomes, HandlerAt, RestoreAt, UndoAt, Caller, Undoing
<1>11. RecordAt(a)'
  BY <1>4, <1>8 DEF Undoing, RecordAt, Remembers, Caller
<1>12. ContainedAt(a)'
  BY <1>3, <1>4, <1>6, <1>8, <1>9 DEF Undoing, ContainedAt, FoundAt
<1>13. Undoable(a, disk)'
  BY <1>8, <1>9 DEF Undoing, Undoable, FoundAt
<1>14. Rooted'
  BY <1>6, <1>9, ProviderFilesAssumption DEF Rooted, OneAtATime, Resting
<1> QED BY <1>7, <1>8, <1>9, <1>10, <1>11, <1>12, <1>13, <1>14, UndoIsLocal DEF Becomes

\* The directories are as they were found before the journal goes.
LEMMA RemoveLocal ==
    ASSUME DiskTypes, JournalTypes, WorkTypes, CoordTypes, Placed, OneAtATime, NEW t \in Calls,
           RemoveDirs(t) \/ DropJournal(t), Undoing(t)
    PROVE  Local(t[1]) /\ Open(t[1])'
<1> DEFINE a == t[1]
<1>1. a \in Attempts /\ a = t[1]
  BY DEF Undoing
<1>2. /\ durable[a] # None /\ work[t].journal = durable[a] /\ memory[a] = None
      /\ disk = before[a].disk
  BY DEF RemoveDirs, DropJournal, At, Undoing, HandlerAt, UndoAt
<1>3. /\ work[t].journal.dir = (~before[a].dir /\ PayloadFiles(a) \cap Nested # {})
      /\ before[a].dir \in BOOLEAN /\ dir \in BOOLEAN
  BY <1>1, <1>2 DEF Undoing, RecordAt, Remembers, CoordTypes, DiskTypes
<1>4. /\ disk' = disk /\ memory' = memory /\ call' = call /\ clean' = clean /\ before' = before
      /\ last' = last /\ after' = after
  BY DEF RemoveDirs, DropJournal, procVars, coordVars, histVars
<1>5. CASE RemoveDirs(t)
  <2>1. Becomes(t, "drop", work[t].comp, work[t].file, work[t].journal, work[t].ok)
    BY <1>5 DEF RemoveDirs, Undoing, UndoMove
  <2>2. dir' = (dir /\ (work[t].journal.dir => \E f \in Nested : disk[f] # Absent)) /\ durable' = durable
    BY <1>5 DEF RemoveDirs
  <2>3. dir' = before[a].dir
    BY <1>2, <1>3, <2>2 DEF Undoing, ContainedAt, FoundAt
  <2>4. HandlerAt(t)'
    BY <1>2, <1>4, <2>1, <2>2, <2>3 DEF Becomes, HandlerAt, RestoreAt, UndoAt, Caller, Undoing
  <2>5. RecordAt(a)' /\ Undoable(a, disk)'
    BY <1>2, <1>4, <2>2 DEF Undoing, RecordAt, Remembers, Undoable, Caller
  <2>6. ContainedAt(a)'
    BY <1>2, <1>4, <2>2, <2>3 DEF Undoing, ContainedAt
  <2>7. Rooted'
    BY <1>2, <1>4, <2>3 DEF Rooted, Undoing, FoundAt
  <2> QED BY <1>4, <2>1, <2>2, <2>4, <2>5, <2>6, <2>7, UndoIsLocal DEF Becomes
<1>6. CASE DropJournal(t)
  <2>1. Becomes(t, "remove_root", work[t].comp, work[t].file, work[t].journal, work[t].ok)
    BY <1>6 DEF DropJournal, Undoing, UndoMove
  <2>2. /\ dir' = dir /\ durable' = [durable EXCEPT ![a] = None] /\ durable'[a] = None
        /\ \A b \in Attempts : b # a => durable'[b] = durable[b]
    BY <1>1, <1>6 DEF DropJournal, JournalTypes
  <2>3. dir = before[a].dir
    BY <1>6 DEF DropJournal, At, Undoing, HandlerAt, UndoAt
  <2>4. HandlerAt(t)'
    BY <1>4, <2>1, <2>2 DEF Becomes, HandlerAt, RestoreAt, UndoAt, Caller, Undoing
  <2>5. RecordAt(a)'
    BY <1>2, <1>4, <2>2 DEF Undoing, RecordAt, Caller
  <2>6. Undoable(a, disk)' /\ ContainedAt(a)' /\ Rooted'
    BY <1>2, <1>4, <2>2, <2>3 DEF Undoing, ContainedAt, FoundAt, Undoable, Rooted, OneAtATime,
       Resting
  <2> QED BY <1>4, <2>1, <2>2, <2>4, <2>5, <2>6, UndoIsLocal DEF Becomes
<1> QED BY <1>5, <1>6

\* A put-back that is cut short leaves a file, and a write a directory, that the journal
\* still knows.
LEMMA CutShortKeeps ==
    ASSUME DiskTypes, JournalTypes, WorkTypes, CoordTypes, Placed, OneAtATime, NEW t \in Calls,
           work[t].pc # "idle", disk' \in CutShort(t),
           dir' = dir \/ dir' = (dir \/ DirCutShort(t)), durable' = durable, before' = before
    PROVE  /\ ContainedAt(t[1])' /\ Undoable(t[1], disk)' /\ Rooted'
           /\ \A f \in Files : disk'[f] \in {disk[f], t[1]}
<1> DEFINE a == t[1]
           f == Payload[a][work[t].file]
<1>1. a \in Attempts /\ a = t[1] /\ Len(Payload[a]) \in Nat
  BY CallParts, Lengths
<1>2. /\ HandlerAt(t) /\ ContainedAt(a) /\ RecordAt(a) /\ FoundAt(a) /\ Undoable(a, disk)
      /\ Rooted
  BY Running DEF OneAtATime, Resting, Rooted
<1>3. dir' # dir => ~dir /\ dir' /\ durable[a] # None /\ PayloadFiles(a) \cap Nested # {}
  <2> SUFFICES ASSUME dir' # dir
               PROVE  ~dir /\ dir' /\ durable[a] # None /\ PayloadFiles(a) \cap Nested # {}
    OBVIOUS
  <2>1. ~dir /\ dir' /\ DirCutShort(t)
    BY DEF DirCutShort, DiskTypes
  <2>2. work[t].pc = "write" /\ work[t].file <= Len(Payload[a]) /\ Payload[a][work[t].file] \in Nested
    BY <2>1 DEF DirCutShort, At
  <2>3. work[t].file \in 1 .. Len(Payload[a])
    <3>1. work[t].file \in Nat /\ PlacedAt(t)
      BY Moves DEF Placed, WorkTypes
    <3> QED BY <1>1, <2>2, <3>1 DEF PlacedAt
  <2>4. durable[a] # None
    BY <1>2, <2>2 DEF HandlerAt, RestoreAt
  <2> QED BY <1>1, <2>1, <2>2, <2>3, <2>4, Lengths
<1>4. CASE disk' = disk
  BY <1>2, <1>4, <1>3 DEF ContainedAt, Undoable, Rooted
<1>5. CASE /\ work[t].pc = "put_back" /\ work[t].file \in 1 .. Len(Payload[a])
           /\ work[t].journal.files[f] # Absent
           /\ disk' = [disk EXCEPT ![f] = a]
  <2>1. f \in PayloadFiles(a) /\ f \in Files
    BY <1>1, <1>5, Lengths
  <2>2. durable[a] # None /\ work[t].journal = durable[a]
    BY <1>2, <1>5 DEF HandlerAt, UndoAt
  <2>3. durable[a].files[f] = before[a].disk[f] /\ before[a].disk[f] # Absent
    BY <1>2, <1>5, <2>1, <2>2 DEF RecordAt, Remembers
  <2>4. \A g \in Files : disk'[g] = IF g = f THEN a ELSE disk[g]
    BY <1>5 DEF DiskTypes
  <2> HIDE DEF f
  <2>5. ContainedAt(a)'
    BY <1>2, <1>3, <2>1, <2>2, <2>4 DEF ContainedAt
  <2>6. Undoable(a, disk)'
    BY <1>2, <2>1, <2>2, <2>3, <2>4 DEF Undoable
  <2>7. Rooted'
    BY <1>2, <1>3, <2>3, <2>4, ProviderFilesAssumption DEF Rooted, FoundAt, ContainedAt
  <2> QED BY <2>4, <2>5, <2>6, <2>7
<1> QED BY <1>4, <1>5, CutTypes

\* A put-back that fails leaves what the journal still knows.
LEMMA UndoFailsLocal ==
    ASSUME DiskTypes, JournalTypes, WorkTypes, CoordTypes, Placed, OneAtATime, NEW t \in Calls,
           UndoFails(t), Undoing(t), disk' \in CutShort(t), UNCHANGED memory
    PROVE  Local(t[1]) /\ Open(t[1])'
<1> DEFINE a == t[1]
<1>1. a \in Attempts /\ a = t[1]
  BY DEF Undoing
<1>2. /\ durable' = durable /\ dir' = dir /\ call' = call /\ clean' = clean /\ before' = before
      /\ last' = last /\ after' = after
  BY DEF UndoFails, coordVars, histVars
<1>3. Becomes(t, "undo", work[t].comp - 1, 0, None, FALSE)
  BY DEF UndoFails, Undoing, UndoMove
<1>4. work[t].pc # "idle"
  BY DEF UndoFails, Back, At
<1>5. /\ ContainedAt(a)' /\ Undoable(a, disk)' /\ Rooted'
      /\ \A f \in Files : disk'[f] \in {disk[f], a}
  BY <1>2, <1>4, CutShortKeeps
<1>6. HandlerAt(t)'
  BY <1>2, <1>3 DEF Becomes, HandlerAt, RestoreAt, UndoAt, Caller, Undoing
<1>7. RecordAt(a)'
  BY <1>2 DEF Undoing, RecordAt, Remembers, Caller
<1> QED BY <1>2, <1>3, <1>5, <1>6, <1>7, UndoIsLocal DEF Becomes

\* Every step of a rollback keeps the invariant.
LEMMA UndoKeeps ==
    ASSUME DiskTypes, JournalTypes, WorkTypes, CoordTypes, Placed, OneAtATime, NEW t \in Calls,
           UndoStep(t)
    PROVE  OneAtATime'
<1>1. t[1] \in Attempts /\ Undoing(t) /\ Open(t[1])
  BY CallParts, UndoingHolds DEF Undoing, Caller, Open, Settled
<1>2. Local(t[1]) /\ Open(t[1])'
  <2>1. CASE UndoFails(t)
    <3>1. CASE disk' \in CutShort(t) /\ UNCHANGED memory
      BY <1>1, <2>1, <3>1, UndoFailsLocal
    <3>2. CASE disk' = disk
      BY <2>1, <3>2, UndoQuiet
    <3> QED BY <2>1, <3>1, <3>2 DEF UndoFails
  <2> QED BY <1>1, <2>1, UndoQuiet, PutBackLocal, RemoveLocal DEF UndoStep
<1> QED BY <1>1, <1>2, LocalKeeps

------------------------------------------------------------------------------
(* The cleanup handler's ends, the coordinator, and a death of the node *)

\* Every step of a cleanup's handler keeps the invariant.
LEMMA CleanupKeeps ==
    ASSUME DiskTypes, JournalTypes, WorkTypes, CoordTypes, Placed, OneAtATime,
           NEW a \in Attempts, CleanupStep(a)
    PROVE  OneAtATime'
<1> DEFINE t == <<a, "cleanup">>
<1>1. t \in Calls /\ t[1] = a /\ t[2] = "cleanup" /\ t = <<a, "cleanup">>
  BY CallParts
<1>2. Len(Order) \in Nat /\ work \in [Calls -> Handlers]
  BY Lengths DEF WorkTypes
<1> HIDE DEF t
<1>3. work[t].pc # "idle"
  BY <1>1 DEF CleanupStep, ReceiveCleanup, CleanupDone, At
<1>4. /\ call[a] = "cleaning" /\ HandlerAt(t) /\ ContainedAt(a) /\ RecordAt(a) /\ FoundAt(a) /\ Open(a)
      /\ Undoable(a, disk)
      /\ \A u \in Calls : u # t => work[u].pc = "idle" \/ u[1] # a
  BY <1>1, <1>3, Running DEF Caller
<1>5. CASE ReceiveCleanup(a)
  <2>1. Becomes(t, "undo", Len(Order), 0, None, TRUE)
    BY <1>1, <1>5, CleanupReceived
  <2>2. Quiet(t)
    BY <1>1, <1>4, <1>5, <2>1 DEF Quiet, Becomes, ReceiveCleanup, diskVars, coordVars, histVars
  <2>3. HandlerAt(t)'
    <3>1. call' = call
      BY <1>5 DEF ReceiveCleanup, coordVars
    <3> QED BY <1>1, <1>4, <2>1, <3>1, OneFilesystem DEF Becomes, HandlerAt, RestoreAt, UndoAt,
               Caller
  <2> QED BY <1>1, <1>3, <1>4, <2>2, <2>3, QuietIsLocal, LocalKeeps
<1>6. CASE CleanupDone(a)
  <2>1. Becomes(t, "idle", 0, 0, None, TRUE)
    BY <1>1, <1>2, <1>6, Moves DEF CleanupDone
  <2>2. /\ disk' = disk /\ dir' = dir /\ durable' = durable /\ memory' = memory /\ before' = before
        /\ last' = last /\ after' = after /\ call' = [call EXCEPT ![a] = "ended"]
        /\ clean' = clean \/ (clean' = clean \cup {a} /\ work[t].ok /\ work[t].pc = "undo" /\ work[t].comp = 0)
    BY <1>1, <1>4, <1>6 DEF CleanupDone, diskVars, procVars, histVars, At
  <2>3. call'[a] = "ended" /\ \A b \in Attempts : b # a => call'[b] = call[b]
    BY <2>2 DEF CoordTypes
  <2>4. a \in clean' => durable[a] = None
    BY <1>1, <1>4, <2>2, OneFilesystem DEF HandlerAt, UndoAt, RecordAt
  <2>5. \A u \in Calls : u[1] = a => HandlerAt(u)'
    <3>1. \A u \in Calls : u[1] = a => work'[u].pc = "idle"
      BY <1>4, <2>1 DEF Becomes
    <3> QED BY <3>1 DEF HandlerAt, RestoreAt, UndoAt
  <2>6. RecordAt(a)'
    BY <1>4, <2>2, <2>3, <2>4 DEF RecordAt, Remembers
  <2>7. ContainedAt(a)' /\ Undoable(a, disk)' /\ Rooted'
    BY <1>4, <2>2 DEF ContainedAt, Undoable, Rooted, OneAtATime, Resting
  <2>8. Local(a)
    BY <1>1, <2>1, <2>2, <2>3, <2>5, <2>6, <2>7 DEF Local, Becomes
  <2>9. Open(a)'
    BY <2>3 DEF Open, Settled
  <2> QED BY <1>4, <2>8, <2>9, LocalKeeps
<1> QED BY <1>5, <1>6 DEF CleanupStep

\* A restore is requested: it finds what is there.
LEMMA RequestKeeps ==
    ASSUME DiskTypes, JournalTypes, WorkTypes, CoordTypes, Placed, OneAtATime,
           NEW a \in Attempts, RequestRestore(a)
    PROVE  OneAtATime'
<1> DEFINE t == <<a, "restore">>
<1>1. t \in Calls /\ t[1] = a /\ t[2] = "restore" /\ t = <<a, "restore">>
  BY CallParts
<1> HIDE DEF t
<1>2. Becomes(t, "sent", 0, 0, None, TRUE)
  BY <1>1, Moves DEF RequestRestore, WorkTypes
<1>3. /\ disk' = disk /\ dir' = dir /\ durable' = durable /\ memory' = memory
      /\ last' = last /\ clean' = clean /\ after' = after \cup {a}
      /\ call[a] = "idle" /\ call'[a] = "restoring" /\ before'[a].disk = disk /\ before'[a].dir = dir
      /\ \A b \in Attempts : b # a => call'[b] = call[b] /\ before'[b] = before[b]
      /\ \A b \in Attempts : Settled(b)
  BY DEF RequestRestore, Phase, diskVars, procVars, CoordTypes
<1>4. \A u \in Calls : work[u].pc = "idle"
  BY <1>3, CallParts DEF OneAtATime, Handled, Caller, Settled
<1>5. durable[a] = None /\ memory[a] = None /\ a \notin clean /\ a \notin after
  BY <1>3 DEF OneAtATime, Recorded, RecordAt, Resting
<1>6. Handled'
  <2>1. HandlerAt(t)'
    BY <1>1, <1>2, <1>3, <1>5 DEF Becomes, HandlerAt, RestoreAt, UndoAt, Caller
  <2>2. \A u \in Calls : u # t => work'[u].pc = "idle"
    BY <1>2, <1>4 DEF Becomes
  <2> QED BY <2>1, <2>2 DEF Handled, HandlerAt, RestoreAt, UndoAt
<1>7. Recorded'
  <2> SUFFICES ASSUME NEW b \in Attempts PROVE RecordAt(b)'
    BY DEF Recorded
  <2>1. RecordAt(b)
    BY DEF OneAtATime, Recorded
  <2>2. CASE b = a
    BY <1>3, <1>5, <2>2 DEF RecordAt
  <2>3. CASE b # a
    BY <1>3, <2>1, <2>3 DEF RecordAt, Remembers, Settled
  <2> QED BY <2>2, <2>3
<1>8. \A f \in Files : disk[f] # a
  BY <1>3, <1>5 DEF OneAtATime, Undoables, Undoable, Committed
<1>9. Undoables'
  BY <1>3, <1>8 DEF OneAtATime, Undoables, Undoable, Committed
<1>10. Opened'
  <2>1. \A b \in Attempts : b # a => ~Open(b)'
    BY <1>3 DEF Open, Settled
  <2>2. ContainedAt(a)'
    BY <1>3 DEF ContainedAt
  <2>3. FoundAt(a)'
    <3>1. \A b \in Attempts \ {a} : (~Committed(b) => Undoable(b, before[a].disk))'
      BY <1>3, <1>9 DEF Undoables, Undoable, Committed
    <3>2. ((\A b \in after \ {a} : b \in clean) => Standing(before[a].disk))'
      <4>1. (\A b \in Attempts : ~Open(b)) /\ (after \subseteq clean => Standing(disk))
        BY <1>3 DEF Open, OneAtATime, Resting
      <4>2. (\A b \in after' \ {a} : b \in clean') => after \subseteq clean
        BY <1>3, <1>5
      <4> QED BY <1>3, <4>1, <4>2 DEF Standing
    <3>3. \A f \in Nested : (before[a].disk[f] # Absent => before[a].dir)'
      BY <1>3 DEF OneAtATime, Resting
    <3> QED BY <1>3, <1>8, <3>1, <3>2, <3>3 DEF FoundAt
  <2> QED BY <2>1, <2>2, <2>3 DEF Opened
<1>11. Resting'
  <2>1. Open(a)' /\ ~Committed(a)'
    BY <1>3 DEF Open, Settled, Committed
  <2> QED BY <1>3, <2>1 DEF OneAtATime, Resting, Settled, Committed
<1> QED BY <1>6, <1>7, <1>9, <1>10, <1>11 DEF OneAtATime

\* The coordinator's thread goes on: no handler of its attempt runs.
Unhandled(a) == \A t \in Calls : t[1] = a => work[t].pc = "idle"

\* A caller that moves on has no handler running.
LEMMA CallerUnhandled ==
    ASSUME DiskTypes, JournalTypes, WorkTypes, CoordTypes, Placed, OneAtATime,
           "late" \notin Faults, NEW a \in Attempts,
           Recover(a) \/ CoordinatorStep(a)
    PROVE  Unhandled(a) /\ ~Settled(a)
<1>1. \A t \in Calls : t[1] = a /\ work[t].pc # "idle" => call[a] = Caller(t)
  BY DEF OneAtATime, Handled
<1>2. ~Settled(a)
  BY DEF Recover, CoordinatorStep, CallFails, JournalRestored, CommitGeneration, SendCleanup,
         FinishFailed, Grant, Settled
<1>3. CASE call[a] \in {"restoring", "cleaning"}
  <2>1. CASE Recover(a)
    <3>1. \A k \in {"restore", "cleanup"} : work[<<a, k>>].pc = "idle"
      BY <2>1 DEF Recover, NoAnswer
    <3> QED BY <1>2, <3>1, CallParts DEF Unhandled
  <2>2. CASE CallFails(a)
    <3>1. \/ call[a] = "restoring" /\ work[<<a, "restore">>].pc = "idle"
          \/ call[a] = "cleaning" /\ work[<<a, "cleanup">>].pc = "idle"
      BY <2>2 DEF CallFails, NoAnswer
    <3> QED BY <1>1, <1>2, <3>1, CallParts DEF Unhandled, Caller
  <2> QED BY <1>3, <2>1, <2>2 DEF CoordinatorStep, JournalRestored, CommitGeneration,
             SendCleanup,
         FinishFailed, Grant
<1>4. CASE call[a] \notin {"restoring", "cleaning"}
  BY <1>1, <1>2, <1>4 DEF Unhandled, Caller
<1> QED BY <1>3, <1>4

\* What a step of the thread leaves alone.
CallOnly(a) ==
    /\ disk' = disk /\ dir' = dir /\ before' = before
    /\ \A b \in Attempts : b # a => /\ durable'[b] = durable[b] /\ memory'[b] = memory[b]
                                    /\ call'[b] = call[b] /\ (b \in clean' <=> b \in clean)

\* What a step of the coordinator may change.
LEMMA CallsOnly ==
    ASSUME JournalTypes, CoordTypes, NEW a \in Attempts, Recover(a) \/ CoordinatorStep(a)
    PROVE  CallOnly(a)
<1> USE DEF CallOnly, diskVars, procVars, histVars, Phase, CoordTypes
<1>1. CASE Grant(a)
  BY <1>1 DEF Grant, CommitProvider, JournalTypes
<1>2. CASE Recover(a) \/ CallFails(a) \/ JournalRestored(a) \/ CommitGeneration(a) \/ SendCleanup(a) \/ FinishFailed(a)
  BY <1>2 DEF Recover, CallFails, JournalRestored, CommitGeneration, SendCleanup, FinishFailed
<1> QED BY <1>1, <1>2 DEF CoordinatorStep

\* The attempt stays open.
LEMMA OpenCallKeeps ==
    ASSUME DiskTypes, JournalTypes, WorkTypes, CoordTypes, Placed, OneAtATime,
           NEW a \in Attempts, Unhandled(a), CallOnly(a), Open(a), Open(a)',
           durable' = durable, memory' = memory, clean' = clean, last' = last, after' = after,
           work' = work \/ (Send(<<a, "cleanup">>) /\ call'[a] = "cleaning"),
           call'[a] \in {"aborting", "cleaning", "ended"} \/ (call[a] = "acked" /\ call'[a] = "applied")
    PROVE  OneAtATime'
<1> DEFINE t == <<a, "cleanup">>
<1>1. t \in Calls /\ t[1] = a /\ t[2] = "cleanup" /\ t = <<a, "cleanup">>
  BY CallParts
<1> HIDE DEF t
<1>2. work' = work \/ (Becomes(t, "sent", 0, 0, None, TRUE) /\ call'[a] = "cleaning")
  BY <1>1, Moves DEF WorkTypes
<1>3. \A u \in Calls : u[1] # a => work'[u] = work[u]
  BY <1>1, <1>2 DEF Becomes
<1>4. \A u \in Calls : u[1] = a => HandlerAt(u)'
  <2> SUFFICES ASSUME NEW u \in Calls, u[1] = a PROVE HandlerAt(u)'
    OBVIOUS
  <2>1. CASE work'[u].pc = "idle"
    BY <2>1 DEF HandlerAt, RestoreAt, UndoAt
  <2>2. CASE u = t /\ Becomes(t, "sent", 0, 0, None, TRUE) /\ call'[a] = "cleaning"
    BY <1>1, <2>2 DEF Becomes, HandlerAt, RestoreAt, UndoAt, Caller
  <2> QED BY <1>2, <2>1, <2>2 DEF Unhandled, Becomes
<1>5. RecordAt(a)'
  BY DEF OneAtATime, Recorded, RecordAt, CallOnly, Remembers, Written
<1>6. ContainedAt(a)' /\ Undoable(a, disk)' /\ Rooted'
  <2>1. ContainedAt(a) /\ Undoable(a, disk) /\ Rooted
    BY DEF OneAtATime, Opened, Undoables, Resting, Rooted, Open, Settled, Committed
  <2> QED BY <2>1 DEF ContainedAt, Undoable, Rooted, CallOnly
<1>7. Local(a)
  BY <1>3, <1>4, <1>5, <1>6 DEF Local, CallOnly
<1> QED BY <1>7, LocalKeeps

\* The attempt is over: it was committed, it failed, or it is granted.
LEMMA ClosingCallKeeps ==
    ASSUME DiskTypes, JournalTypes, WorkTypes, CoordTypes, Placed, OneAtATime,
           NEW a \in Attempts, Unhandled(a), ~Settled(a), CallOnly(a), ~Open(a)',
           work' = work, RecordAt(a)', Committed(a)' \/ (~Committed(a) /\ durable' = durable),
           call'[a] # "idle",
           \/ last' = a /\ after' = {} /\ Written(a)
           \/ last' = last /\ after' = after /\ Open(a) /\ durable' = durable /\ clean' = clean
              /\ ~Committed(a)'
           \/ last' = last /\ after' = after /\ Committed(a) /\ Settled(a)'
    PROVE  OneAtATime'
<1>1. \A b \in Attempts : b # a => Settled(b) /\ ~Open(b) /\ Unhandled(b)
  BY Alone DEF OneAtATime, Unhandled
<1>2. \A b \in Attempts : ~Open(b)'
  BY <1>1 DEF CallOnly, Open, Settled
<1>3. Handled'
  <2>1. \A t \in Calls : work'[t].pc = "idle"
    BY <1>1, CallParts DEF Unhandled
  <2> QED BY <2>1 DEF Handled, RestoreAt, UndoAt
<1>4. Recorded'
  <2> SUFFICES ASSUME NEW b \in Attempts, b # a PROVE RecordAt(b)'
    BY DEF Recorded
  <2>1. RecordAt(b)
    BY DEF OneAtATime, Recorded
  <2> QED BY <2>1 DEF RecordAt, CallOnly, Remembers, Written
<1>5. Undoables'
  <2> SUFFICES ASSUME NEW b \in Attempts, ~Committed(b)' PROVE Undoable(b, disk)'
    BY DEF Undoables
  <2>1. ~Committed(b) /\ durable'[b] = durable[b]
    BY DEF CallOnly, Committed
  <2> QED BY <2>1 DEF OneAtATime, Undoables, Undoable, CallOnly
<1>6. Opened'
  BY <1>2 DEF Opened
<1>7. Resting'
  <2>1. \A b, c \in Attempts : (Settled(b) \/ Settled(c) \/ b = c)'
    BY <1>1 DEF CallOnly, Settled
  <2>2. \A b \in Attempts : (call[b] = "idle" \/ Committed(b) => b \notin after)'
    BY DEF OneAtATime, Resting, CallOnly, Committed
  <2>3. \A f \in Nested : (disk[f] # Absent => dir)'
    BY DEF OneAtATime, Resting, CallOnly
  <2>4. (after \subseteq clean => Standing(disk))'
    <3>1. CASE last' = a /\ after' = {} /\ Written(a)
      BY <3>1 DEF Standing, Written, CallOnly
    <3>2. CASE last' = last /\ after' = after /\ Open(a) /\ durable' = durable /\ clean' = clean
      <4> SUFFICES ASSUME after \subseteq clean PROVE Standing(disk)
        BY <3>2 DEF Standing, CallOnly
      <4>1. ContainedAt(a) /\ FoundAt(a) /\ RecordAt(a)
        BY <3>2 DEF OneAtATime, Opened, Recorded
      <4>2. disk = before[a].disk
        BY <4>1 DEF FoundAt, RecordAt, ContainedAt
      <4>3. Standing(before[a].disk)
        BY <4>1 DEF FoundAt
      <4> QED BY <4>2, <4>3
    <3>3. CASE last' = last /\ after' = after /\ Committed(a)
      <4>1. \A b \in Attempts : ~Open(b)
        BY <1>1, <3>3 DEF Committed, Open, Settled
      <4>2. a \notin after /\ after \subseteq Attempts
        BY <3>3 DEF OneAtATime, Resting, CoordTypes
      <4>3. after' \subseteq clean' => after \subseteq clean
        BY <3>3, <4>2 DEF CallOnly
      <4> QED BY <3>3, <4>1, <4>3 DEF OneAtATime, Resting, Standing, CallOnly
    <3> QED BY <3>1, <3>2, <3>3
  <2> QED BY <2>1, <2>2, <2>3, <2>4 DEF Resting
<1> QED BY <1>3, <1>4, <1>5, <1>6, <1>7 DEF OneAtATime

\* Every step of the coordinator keeps the invariant.
LEMMA CallKeeps ==
    ASSUME DiskTypes, JournalTypes, WorkTypes, CoordTypes, Placed, OneAtATime,
           "late" \notin Faults, NEW a \in Attempts, CallStep(a)
    PROVE  OneAtATime'
<1> USE DEF diskVars, procVars, histVars, Phase, CoordTypes
<1>1. CASE RequestRestore(a)
  BY <1>1, RequestKeeps
<1> SUFFICES ASSUME Recover(a) \/ CoordinatorStep(a) PROVE OneAtATime'
  BY <1>1 DEF CallStep
<1>2. Unhandled(a) /\ ~Settled(a) /\ CallOnly(a) /\ RecordAt(a) /\ (call[a] # "committed" => Open(a))
  BY CallerUnhandled, CallsOnly DEF OneAtATime, Recorded, Open
<1>3. CASE CallFails(a)
  <2>1. /\ durable' = durable /\ memory' = memory /\ clean' = clean
        /\ last' = last /\ after' = after /\ work' = work
        /\ call'[a] \in {"aborting", "ended"} /\ Open(a)
    BY <1>2, <1>3 DEF CallFails
  <2>2. Open(a)'
    BY <2>1 DEF Open, Settled
  <2> QED BY <1>2, <2>1, <2>2, OpenCallKeeps
<1>4. CASE JournalRestored(a)
  <2>1. /\ durable' = durable /\ memory' = memory /\ clean' = clean
        /\ last' = last /\ after' = after /\ work' = work
        /\ call[a] = "acked" /\ call'[a] = "applied" /\ Open(a)
    BY <1>2, <1>4 DEF JournalRestored
  <2>2. Open(a)'
    BY <2>1 DEF Open, Settled
  <2> QED BY <1>2, <2>1, <2>2, OpenCallKeeps
<1>5. CASE CommitGeneration(a) /\ call'[a] = "aborting"
  <2>1. /\ durable' = durable /\ memory' = memory /\ clean' = clean
        /\ last' = last /\ after' = after /\ work' = work /\ Open(a)
    BY <1>2, <1>5 DEF CommitGeneration
  <2>2. Open(a)'
    BY <1>5 DEF Open, Settled
  <2> QED BY <1>2, <1>5, <2>1, <2>2, OpenCallKeeps
<1>6. CASE CommitGeneration(a) /\ call'[a] # "aborting"
  <2>1. /\ durable' = durable /\ memory' = memory /\ clean' = clean
        /\ last' = a /\ after' = {} /\ work' = work
        /\ call[a] = "applied" /\ call'[a] = "committed"
    BY <1>6 DEF CommitGeneration
  <2>2. ~Open(a)' /\ Committed(a)' /\ Written(a)
    BY <1>2, <2>1 DEF Open, Committed, RecordAt
  <2>3. RecordAt(a)'
    BY <1>2, <2>1 DEF RecordAt, Remembers, CallOnly
  <2> QED BY <1>2, <2>1, <2>2, <2>3, ClosingCallKeeps
<1>7. CASE SendCleanup(a)
  <2>1. /\ durable' = durable /\ memory' = memory /\ clean' = clean
        /\ last' = last /\ after' = after
        /\ Send(<<a, "cleanup">>) /\ call'[a] = "cleaning" /\ Open(a)
    BY <1>2, <1>7 DEF SendCleanup
  <2>2. Open(a)'
    BY <2>1 DEF Open, Settled
  <2> QED BY <1>2, <2>1, <2>2, OpenCallKeeps
<1>8. CASE Recover(a) /\ call'[a] = "aborting"
  <2>1. /\ durable' = durable /\ memory' = memory /\ clean' = clean
        /\ last' = last /\ after' = after /\ work' = work /\ Open(a)
    BY <1>2, <1>8 DEF Recover, Committed
  <2>2. Open(a)'
    BY <1>8 DEF Open, Settled
  <2> QED BY <1>2, <1>8, <2>1, <2>2, OpenCallKeeps
<1>9. CASE FinishFailed(a) \/ (Recover(a) /\ call'[a] # "aborting")
  <2>1. /\ durable' = durable /\ memory' = memory /\ clean' = clean
        /\ last' = last /\ after' = after /\ work' = work
        /\ call'[a] = "failed" /\ Open(a) /\ ~Committed(a)
    BY <1>2, <1>9 DEF FinishFailed, Recover, Committed
  <2>2. ~Open(a)' /\ ~Committed(a)'
    BY <2>1 DEF Open, Settled, Committed
  <2>3. RecordAt(a)'
    BY <1>2, <2>1 DEF RecordAt, Remembers, CallOnly
  <2> QED BY <1>2, <2>1, <2>2, <2>3, ClosingCallKeeps
<1>10. CASE Grant(a)
  <2>1. /\ last' = last /\ after' = after /\ work' = work /\ call[a] = "committed"
        /\ call'[a] \in {"granted", "held"}
    BY <1>10 DEF Grant
  <2>2. /\ durable'[a] \in {durable[a], None}
        /\ memory'[a] = None \/ (memory'[a] = memory[a] /\ durable'[a] = durable[a])
        /\ a \in clean' => a \in clean \/ (durable'[a] = None /\ call'[a] = "granted")
    BY <1>10 DEF Grant, CommitProvider, JournalTypes
  <2>3. ~Open(a)' /\ ~Open(a) /\ Committed(a) /\ Committed(a)' /\ Settled(a)' /\ call'[a] # "idle"
    BY <2>1 DEF Open, Committed, Settled
  <2>4. a \notin clean
    BY <1>2, <2>1 DEF RecordAt
  <2>5. RecordAt(a)'
    BY <1>2, <2>1, <2>2, <2>4 DEF RecordAt, Remembers, CallOnly
  <2> QED BY <1>2, <2>1, <2>3, <2>5, ClosingCallKeeps
<1> QED BY <1>3, <1>4, <1>5, <1>6, <1>7, <1>8, <1>9, <1>10 DEF CoordinatorStep

\* Attachment and detachment are no concern of the attempt under way.
LEMMA HostingKeeps ==
    ASSUME OneAtATime, Hosting
    PROVE  OneAtATime'
<1> USE DEF Hosting, Attach, DropProviders, diskVars, coordVars, histVars
<1>1. Handled'
  BY DEF OneAtATime, Handled, RestoreAt, UndoAt, Remembers, Written
<1>2. Recorded'
  BY DEF OneAtATime, Recorded, RecordAt, Remembers, Written
<1>3. Undoables'
  BY DEF OneAtATime, Undoables, Undoable, Committed
<1>4. Opened'
  BY DEF OneAtATime, Opened, Open, Settled, ContainedAt, FoundAt, Undoable, Committed, Standing
<1>5. Resting'
  BY DEF OneAtATime, Resting, Open, Settled, Committed, Standing
<1> QED BY <1>1, <1>2, <1>3, <1>4, <1>5 DEF OneAtATime

\* The node dies: the durable journals are enough.
LEMMA CrashKeeps ==
    ASSUME DiskTypes, JournalTypes, WorkTypes, CoordTypes, Placed, OneAtATime, Crash
    PROVE  OneAtATime'
<1>1. /\ durable' = durable /\ call' = call /\ clean' = clean /\ before' = before
      /\ last' = last /\ after' = after /\ \A a \in Attempts : memory'[a] = None
      /\ \A t \in Calls : work'[t].pc = "idle"
  BY DEF Crash, histVars, NoWork, Handler
<1>2. PICK t \in Calls : disk' \in CutShort(t) /\ dir' \in {dir, dir \/ DirCutShort(t)}
  BY DEF Crash
<1>3. Handled'
  BY <1>1 DEF Handled, RestoreAt, UndoAt
<1>4. CASE disk' = disk /\ dir' = dir
  <2>1. Recorded'
    BY <1>1, <1>4 DEF OneAtATime, Recorded, RecordAt, Remembers, Written
  <2>2. Undoables'
    BY <1>1, <1>4 DEF OneAtATime, Undoables, Undoable, Committed
  <2>3. Opened'
    BY <1>1, <1>4 DEF OneAtATime, Opened, Open, Settled, ContainedAt, FoundAt, Undoable,
       Committed, Standing
  <2>4. Resting'
    BY <1>1, <1>4 DEF OneAtATime, Resting, Open, Settled, Committed, Standing
  <2> QED BY <1>3, <2>1, <2>2, <2>3, <2>4 DEF OneAtATime
<1>5. CASE disk' # disk \/ dir' # dir
  <2> DEFINE a == t[1]
  <2>1. a \in Attempts /\ work[t].pc # "idle"
    <3>1. disk' # disk => work[t].pc # "idle"
      <4>1. disk' \in CutShort(t)
        BY <1>2
      <4>2. disk' = disk \/ work[t].pc = "put_back"
        BY <4>1 DEF CutShort, At
      <4> QED BY <4>2
    <3>2. dir' # dir => work[t].pc # "idle"
      BY <1>2 DEF DirCutShort, At, DiskTypes
    <3> QED BY <1>5, <3>1, <3>2, CallParts
  <2>2. /\ call[a] \in {"restoring", "cleaning"} /\ Open(a) /\ FoundAt(a)
        /\ ContainedAt(a)' /\ Undoable(a, disk)' /\ Rooted'
        /\ \A f \in Files : disk'[f] \in {disk[f], a}
    <3>1. call[a] \in {"restoring", "cleaning"} /\ Open(a) /\ FoundAt(a)
      BY <2>1, Running DEF Caller
    <3>2. durable' = durable /\ before' = before /\ disk' \in CutShort(t)
      BY <1>1, <1>2
    <3>3. dir' = dir \/ dir' = (dir \/ DirCutShort(t))
      BY <1>2
    <3>4. /\ ContainedAt(a)' /\ Undoable(a, disk)' /\ Rooted'
          /\ \A f \in Files : disk'[f] \in {disk[f], a}
      BY <2>1, <3>2, <3>3, CutShortKeeps
    <3> QED BY <3>1, <3>4
  <2>3. \A b \in Attempts : b # a => Settled(b) /\ ~Open(b)
    BY <2>1, <2>2, Alone DEF OneAtATime, Open
  <2> HIDE DEF a
  <2>4. Recorded'
    <3> SUFFICES ASSUME NEW b \in Attempts PROVE RecordAt(b)'
      BY DEF Recorded
    <3>1. RecordAt(b) /\ call[b] \notin {"acked", "applied"}
      BY <2>2, <2>3 DEF OneAtATime, Recorded, Settled
    <3> QED BY <1>1, <3>1 DEF RecordAt, Remembers
  <2>5. Undoables'
    <3> SUFFICES ASSUME NEW b \in Attempts, b # a, ~Committed(b)' PROVE Undoable(b, disk)'
      BY <2>2 DEF Undoables
    <3>1. Undoable(b, disk)
      BY <1>1 DEF OneAtATime, Undoables, Committed
    <3> QED BY <1>1, <2>2, <3>1 DEF Undoable
  <2>6. Opened'
    <3>1. \A b \in Attempts : b # a => ~Open(b)'
      BY <1>1, <2>3 DEF Open, Settled
    <3>2. FoundAt(a)'
      BY <1>1, <2>2 DEF FoundAt, Undoable, Committed, Standing
    <3> QED BY <2>2, <3>1, <3>2 DEF Opened
  <2>7. Resting'
    <3>1. Open(a)' /\ a \in Attempts
      BY <1>1, <2>1, <2>2 DEF Open, Settled, a
    <3> QED BY <1>1, <2>2, <3>1 DEF OneAtATime, Resting, Settled, Committed, Rooted
  <2> QED BY <1>3, <2>4, <2>5, <2>6, <2>7 DEF OneAtATime
<1> QED BY <1>4, <1>5

------------------------------------------------------------------------------
(* The theorems *)

\* The initial states satisfy the invariant.
LEMMA InitIInv == Init => IInv
<1> SUFFICES ASSUME Init PROVE IInv
  OBVIOUS
<1>1. DiskTypes /\ JournalTypes /\ WorkTypes /\ CoordTypes /\ Placed
  BY InitTypes
<1>2. /\ \A t \in Calls : work[t].pc = "idle"
      /\ \A a \in Attempts : /\ durable[a] = None /\ memory[a] = None /\ call[a] = "idle"
                             /\ Settled(a) /\ ~Open(a)
      /\ clean = {} /\ last = None /\ after = {}
  BY DEF Init, NoWork, Handler, Settled, Open
<1>3. Handled
  BY <1>2 DEF Handled, RestoreAt, UndoAt
<1>4. Recorded
  BY <1>2 DEF Recorded, RecordAt
<1>5. Undoables
  BY ProviderFilesAssumption DEF Init, Undoables, Undoable
<1>6. Opened /\ Resting
  BY <1>2, ProviderFilesAssumption DEF Opened, Resting, Standing, Committed, Init
<1> QED BY <1>1, <1>3, <1>4, <1>5, <1>6, TypeParts DEF IInv, OneAtATime

\* Every step keeps the invariant.
LEMMA StepIInv == IInv /\ [Next]_vars => IInv'
<1> SUFFICES ASSUME IInv, [Next]_vars PROVE IInv'
  OBVIOUS
<1>1. DiskTypes /\ JournalTypes /\ WorkTypes /\ CoordTypes /\ Placed
  BY TypeParts DEF IInv
<1>2. CASE UNCHANGED vars
  <2>1. DiskTypes' /\ JournalTypes' /\ WorkTypes' /\ CoordTypes'
    BY <1>1, <1>2 DEF DiskTypes, JournalTypes, WorkTypes, CoordTypes, vars, diskVars, procVars,
       coordVars, histVars
  <2>2. Placed'
    BY <1>1, <1>2 DEF Placed, PlacedAt, AtFilesystem, KindIs, vars
  <2>3. OneAtATime => OneAtATime'
    <3> USE <1>2 DEF vars, diskVars, procVars, coordVars, histVars
    <3>1. Handled => Handled'
      BY DEF Handled, RestoreAt, UndoAt, Remembers, Written
    <3>2. Recorded => Recorded'
      BY DEF Recorded, RecordAt, Remembers, Written
    <3>3. Undoables => Undoables'
      BY DEF Undoables, Undoable, Committed
    <3>4. Opened => Opened'
      BY DEF Opened, Open, Settled, ContainedAt, FoundAt, Undoable, Committed, Standing
    <3>5. Resting => Resting'
      BY DEF Resting, Open, Settled, Committed, Standing
    <3> QED BY <3>1, <3>2, <3>3, <3>4, <3>5 DEF OneAtATime
  <2>4. (TypeOK /\ Shaped)'
    <3>1. (DiskTypes /\ JournalTypes /\ WorkTypes /\ CoordTypes)'
      BY <2>1
    <3> QED BY <3>1, TypeParts, PTL
  <2> QED BY <2>2, <2>3, <2>4 DEF IInv
<1>3. CASE Next
  <2>1. /\ DiskTypes' /\ JournalTypes' /\ WorkTypes' /\ CoordTypes' /\ Placed'
        /\ "late" \notin Faults => OneAtATime'
    <3>1. CASE \E a \in Attempts : CallStep(a)
      BY <1>1, <3>1, CallTypes, CallKeeps DEF IInv
    <3>2. CASE \E a \in Attempts : RestoreStep(a)
      BY <1>1, <3>2, RestoreTypes, RestoreKeeps DEF IInv
    <3>3. CASE \E a \in Attempts : CleanupStep(a)
      BY <1>1, <3>3, CleanupTypes, CleanupKeeps DEF IInv
    <3>4. CASE \E t \in Calls : UndoStep(t)
      BY <1>1, <3>4, UndoTypes, UndoKeeps DEF IInv
    <3>5. CASE Crash
      BY <1>1, <3>5, CrashTypes, CrashKeeps DEF IInv
    <3>6. CASE Hosting
      BY <1>1, <3>6, HostingTypes, HostingKeeps DEF IInv
    <3> QED BY <1>3, <3>1, <3>2, <3>3, <3>4, <3>5, <3>6 DEF Next, CallStep, CleanupStep, Hosting
  <2>2. (TypeOK /\ Shaped)'
    <3>1. (DiskTypes /\ JournalTypes /\ WorkTypes /\ CoordTypes)'
      BY <2>1
    <3> QED BY <3>1, TypeParts, PTL
  <2> QED BY <2>1, <2>2 DEF IInv
<1> QED BY <1>2, <1>3

\* The invariant holds in every reachable state.
THEOREM Inductive == Spec => []IInv
BY InitIInv, StepIInv, PTL DEF Spec

\* Every variable of the restore handlers, the file system and the coordinator's calls has
\* its type, whatever goes wrong: a handler never looks at a component, a file or a journal
\* that is not there (do_restore, cleanup_restored, FilesystemProvider).
THEOREM ProviderTypes == Spec => []TypeOK
<1>1. IInv => TypeOK
  BY DEF IInv
<1> QED BY <1>1, Inductive, PTL

\* What a restore that is not committed has done to the files can be undone by a new
\* process: the durable journal of FilesystemProvider.restore holds what was there before,
\* through failed accesses, deaths of the node and of the coordinator.
THEOREM RestoresCanBeUndone ==
    ASSUME "late" \notin Faults
    PROVE  Spec => []RollbackCapable
<1>1. IInv => RollbackCapable
  BY DEF IInv, OneAtATime, Undoables, Undoable, RollbackCapable
<1> QED BY <1>1, Inductive, PTL

\* A cleanup that reached the filesystem provider and was answered without an error left
\* files and subdirectory as they were when the restore was requested (cleanup_restore). A
\* cleanup by a process without providers (do_cleanup over an empty registry) is answered
\* the same way and is not counted.
THEOREM CleanupsAreExact ==
    ASSUME "late" \notin Faults
    PROVE  Spec => []CleanupExact
<1>1. IInv => CleanupExact
  <2> SUFFICES ASSUME IInv, NEW a \in clean, call[a] = "ended"
               PROVE  disk = before[a].disk /\ dir = before[a].dir
    BY DEF CleanupExact
  <2>1. a \in Attempts /\ Open(a)
    BY DEF IInv, TypeOK, Open, Settled
  <2> QED BY <2>1 DEF IInv, OneAtATime, Recorded, RecordAt, Opened, ContainedAt
<1> QED BY <1>1, Inductive, PTL

\* The files of the last committed restore stay as long as every restore requested after
\* it was cleaned up by a call that reached the filesystem provider and was answered
\* without an error (commit_restore, cleanup_restore).
THEOREM CommittedFilesStay ==
    ASSUME "late" \notin Faults
    PROVE  Spec => []CommittedFilesKept
<1>1. IInv => CommittedFilesKept
  <2> SUFFICES ASSUME IInv, last # None, \A b \in after : b \in clean /\ Settled(b)
               PROVE  \A f \in PayloadFiles(last) : disk[f] = last
    BY DEF CommittedFilesKept
  <2>1. \A a \in Attempts : Open(a) => a \in after
    BY DEF IInv, OneAtATime, Opened, FoundAt
  <2>2. \A a \in Attempts : ~Open(a)
    BY <2>1 DEF Open
  <2> QED BY <2>2 DEF IInv, OneAtATime, Resting, Standing
<1> QED BY <1>1, Inductive, PTL

\* A restore that was granted, or undone, by a call that reached the filesystem provider and
\* was answered without an error keeps no journal (do_resume with commit_restore,
\* cleanup_restore).
THEOREM JournalsGo ==
    ASSUME "late" \notin Faults
    PROVE  Spec => []JournalsDiscarded
<1>1. IInv => JournalsDiscarded
  <2>1. TypeOK => clean \subseteq Attempts
    BY DEF TypeOK
  <2> QED BY <2>1 DEF IInv, OneAtATime, Recorded, RecordAt, JournalsDiscarded
<1> QED BY <1>1, Inductive, PTL

==============================================================================
