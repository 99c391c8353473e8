------------------------------- MODULE GoBuffer -------------------------------
(***************************************************************************)
(* One Go object of type Buffer (go/bridge.go), shared by goroutines that  *)
(* call its methods at any time, and by the goroutine that runs its        *)
(* finalizer.  Nothing in the type synchronises them: the methods are      *)
(* modelled statement by statement.                                        *)
(*                                                                         *)
(* Three rules, none of which the type enforces, keep the calls apart:     *)
(*   "exclusive_free"  nobody else is in a method while Free runs          *)
(*   "no_raw_when_freed"  a freed Buffer is not passed to InvokeCallback   *)
(*   "keep_alive"  a goroutine holds on to the Buffer until its call is    *)
(*                 over (runtime.KeepAlive)                                *)
(* The program keeps the rules in Rules; `broken` records those it broke.  *)
(***************************************************************************)
EXTENDS FfiMemory

CONSTANTS
  Goroutines,
  Collector,  \* the goroutine that runs finalizers
  Rules       \* the rules that the program keeps

RuleNames == {"exclusive_free", "no_raw_when_freed", "keep_alive"}

ASSUME BufferAssumption ==
  /\ Collector \notin Goroutines
  /\ Rules \subseteq RuleNames

VARIABLES
  heap, corrupted,  \* as in AbiClient
  buffer,           \* the object: inner, freed, and whether it has a finalizer
  contents,         \* history: the bytes the Buffer was made from
  refs,             \* the goroutines that still have the pointer to it
  call,             \* the method each goroutine is in, and the next statement
  got,              \* what each goroutine's last Bytes returned
  broken            \* history: the rules broken so far

vars == <<heap, corrupted, buffer, contents, refs, call, got, broken>>

Callers == Goroutines \cup {Collector}

Idle == [op |-> "none", pc |-> "none"]

\* Goes on to statement pc of the method, or returns.
GoTo(a, pc) == call' = [call EXCEPT ![a].pc = pc]
Return(a) == call' = [call EXCEPT ![a] = Idle]

At(a, op, pc) == call[a] = [op |-> op, pc |-> pc]

-----------------------------------------------------------------------------
(***************************************************************************)
(* Calls.  ToJSON is Bytes and a decoding; "raw" is raw() in               *)
(* InvokeCallback and the use of the pointer in C.                         *)
(***************************************************************************)
Methods == {"Bytes", "raw", "Free"}

\* The rules that a call of op by g breaks.
Breaks(g, op) ==
  {rule \in RuleNames :
     \/ /\ rule = "exclusive_free"
        /\ \E h \in Goroutines \ {g} :
             call[h] # Idle /\ "Free" \in {op, call[h].op}
     \/ rule = "no_raw_when_freed" /\ op = "raw" /\ buffer.freed}

Enter(g, op) ==
  /\ g \in refs
  /\ call[g] = Idle
  /\ Breaks(g, op) \cap Rules = {}
  /\ call' = [call EXCEPT ![g] = [op |-> op, pc |-> "check"]]
  /\ broken' = broken \cup Breaks(g, op)
  /\ UNCHANGED <<heap, corrupted, buffer, contents, refs, got>>

\* Variation: Free does not need the Buffer to clear its finalizer.
ForgetInFree(g) ==
  LET early == IF call[g] = Idle THEN {} ELSE {"keep_alive"} IN
  /\ g \in refs
  /\ call[g].pc \in {"none", "use", "clear"}
  /\ early \cap Rules = {}
  /\ refs' = refs \ {g}
  /\ broken' = broken \cup early
  /\ UNCHANGED <<heap, corrupted, buffer, contents, call, got>>

\* g's last use of the Buffer is over: what it still needs of it has been read
\* already.  Free needs the Buffer to its end.
Forget(g) ==
  LET early == IF call[g] = Idle THEN {} ELSE {"keep_alive"} IN
  /\ g \in refs
  /\ call[g].pc \in {"none", "use"}
  /\ early \cap Rules = {}
  /\ refs' = refs \ {g}
  /\ broken' = broken \cup early
  /\ UNCHANGED <<heap, corrupted, buffer, contents, call, got>>

-----------------------------------------------------------------------------
(***************************************************************************)
(* func (b *Buffer) Bytes() []byte, and raw().                             *)
(***************************************************************************)

\* Variation: `freed` is not looked at.
ReadInnerOnly(g) ==
  /\ call[g].op \in {"Bytes", "raw"} /\ call[g].pc = "check"
  /\ GoTo(g, "use")
  /\ UNCHANGED <<heap, corrupted, buffer, contents, refs, got, broken>>

\* The fields are read; Bytes returns nil for a freed or empty Buffer.
ReadFields(g) ==
  LET empty == buffer.freed \/ buffer.inner.data = Null \/ buffer.inner.len = 0
  IN
  /\ call[g].op \in {"Bytes", "raw"} /\ call[g].pc = "check"
  /\ \/ /\ call[g].op = "Bytes" /\ empty
        /\ Return(g)
        /\ got' = [got EXCEPT ![g] = <<>>]
     \/ /\ call[g].op = "raw" \/ ~empty
        /\ GoTo(g, "use")
        /\ UNCHANGED got
  /\ UNCHANGED <<heap, corrupted, buffer, contents, refs, broken>>

\* C.GoBytes, or the callback, reads the memory behind the pointer.
UsePointer(g) ==
  /\ call[g].pc = "use" /\ call[g].op \in {"Bytes", "raw"}
  /\ corrupted' = (corrupted \/ ~Readable(heap, buffer.inner))
  /\ got' = IF call[g].op = "Bytes"
              THEN [got EXCEPT ![g] = AsSlice(heap, buffer.inner)]
              ELSE got
  /\ Return(g)
  /\ UNCHANGED <<heap, buffer, contents, refs, broken>>

-----------------------------------------------------------------------------
(***************************************************************************)
(* func (b *Buffer) Free().                                                *)
(***************************************************************************)
CheckFreed(a) ==
  /\ At(a, "Free", "check")
  /\ IF buffer.freed THEN Return(a) ELSE GoTo(a, "free")
  /\ UNCHANGED <<heap, corrupted, buffer, contents, refs, got, broken>>

BufferFree(a) ==
  LET out == BufferDealloc(heap, buffer.inner) IN
  /\ At(a, "Free", "free")
  /\ heap' = out.heap
  /\ corrupted' = (corrupted \/ ~out.ok)
  /\ GoTo(a, "mark")
  /\ UNCHANGED <<buffer, contents, refs, got, broken>>

\* Variation: `freed` is not set.
MarkNothing(a) ==
  /\ At(a, "Free", "mark")
  /\ GoTo(a, "clear")
  /\ UNCHANGED <<heap, corrupted, buffer, contents, refs, got, broken>>

MarkFreed(a) ==
  /\ At(a, "Free", "mark")
  /\ buffer' = [buffer EXCEPT !.freed = TRUE]
  /\ GoTo(a, "clear")
  /\ UNCHANGED <<heap, corrupted, contents, refs, got, broken>>

\* runtime.SetFinalizer(b, nil)
ClearFinalizer(a) ==
  /\ At(a, "Free", "clear")
  /\ buffer' = [buffer EXCEPT !.finalizer = FALSE]
  /\ Return(a)
  /\ UNCHANGED <<heap, corrupted, contents, refs, got, broken>>

Free(a) == CheckFreed(a) \/ BufferFree(a) \/ MarkFreed(a) \/ ClearFinalizer(a)

-----------------------------------------------------------------------------
\* The collector finds that no goroutine has the Buffer: its finalizer, which
\* is then no longer set, calls Free.
Finalize ==
  /\ refs = {} /\ buffer.finalizer
  /\ call[Collector] = Idle
  /\ buffer' = [buffer EXCEPT !.finalizer = FALSE]
  /\ call' = [call EXCEPT ![Collector] = [op |-> "Free", pc |-> "check"]]
  /\ UNCHANGED <<heap, corrupted, contents, refs, got, broken>>

\* Variation: no finalizer is set.
NewPlainBuffer(inner) == [inner |-> inner, freed |-> FALSE, finalizer |-> FALSE]

NewBuffer(inner) == [inner |-> inner, freed |-> FALSE, finalizer |-> TRUE]

\* FromBytes has made the Buffer, and every goroutine was given the pointer.
Init ==
  /\ contents \in {<<>>, <<"text">>}
  /\ \E b \in Blocks :
       LET out == FromBytes([x \in Blocks |-> Unallocated], b, contents)
       IN  heap = out.heap /\ buffer = NewBuffer(out.val)
  /\ corrupted = FALSE
  /\ refs = Goroutines
  /\ call = [a \in Callers |-> Idle]
  /\ got = [g \in Goroutines |-> <<>>]
  /\ broken = {}

Steps(a) == ReadFields(a) \/ UsePointer(a) \/ Free(a)

Next ==
  \/ \E g \in Goroutines, op \in Methods : Enter(g, op)
  \/ \E g \in Goroutines : Forget(g)
  \/ \E a \in Callers : Steps(a)
  \/ Finalize

Spec == Init /\ [][Next]_vars

(***************************************************************************)
(* Calls that have begun go on, and the collector runs: the program does   *)
(* not exit.  Nobody has to call Free, or to forget the Buffer.            *)
(***************************************************************************)
Fairness == WF_vars(Finalize) /\ \A a \in Callers : WF_vars(Steps(a))

FairSpec == Spec /\ Fairness

-----------------------------------------------------------------------------
(***************************************************************************)
(* Properties.                                                             *)
(***************************************************************************)

\* The type invariant: a goroutine that has statements on the fields left still
\* has the pointer.
TypeOK ==
  /\ heap \in [Blocks -> [live : BOOLEAN, size : 0 .. MaxSize, bytes : Strings]]
  /\ corrupted \in BOOLEAN
  /\ buffer.freed \in BOOLEAN /\ buffer.finalizer \in BOOLEAN
  /\ contents \in Strings
  /\ refs \subseteq Goroutines
  /\ call \in [Callers -> [op : Methods \cup {"none"},
                 pc : {"none", "check", "use", "free", "mark", "clear"}]]
  /\ \A g \in Goroutines : call[g].pc \in {"check", "free", "mark", "clear"}
                             => g \in refs
  /\ got \in [Goroutines -> Strings]
  /\ broken \subseteq RuleNames

\* The three rules are enough: while the program keeps them, and however
\* often and in whatever order it calls the methods, the memory is not freed
\* twice and not used after it was freed, by the finalizer either.
OnlyBrokenRulesCorrupt == corrupted => broken # {}

\* While the rules are kept, Bytes returns the contents until Free has been
\* called, and nil from then on.
BytesUntilFreed ==
  [][\A g \in Goroutines :
       call[g].op = "Bytes" /\ call'[g] = Idle /\ broken = {}
         => got'[g] = IF buffer.freed THEN <<>> ELSE contents]_vars

\* A Buffer that no goroutine has any more is eventually freed, whoever was
\* in which method when it was forgotten.
EventuallyFreed == refs = {} ~> \A b \in Blocks : ~heap[b].live

\* README: the finalizer "ensures cleanup if Free() is not called explicitly",
\* and that is all it does: it does not free what is still used.
HeapSound == ~corrupted
=============================================================================
