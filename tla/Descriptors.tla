---------------------------- MODULE Descriptors ----------------------------
(***************************************************************************)
(* File, Pipe and Fifo (src/rix/ipc/{file,pipe,fifo}.cpp) as owners of     *)
(* file descriptors: opening, adopting, copying by dup(2), moving,         *)
(* assigning and destroying, in any order the language allows.  A Pipe     *)
(* carries which end it is and a Fifo its path (label); a File carries     *)
(* nothing.  One thread; the storage of each object is reused when it has  *)
(* been destroyed.                                                         *)
(*                                                                         *)
(* External: the kernel's table, which hands out the lowest free           *)
(* descriptor, and fails when there is none.                               *)
(***************************************************************************)
EXTENDS Integers, Sequences

CONSTANTS
  Files, Pipes, Fifos, \* storage for the objects of each class
  Fds,                 \* the descriptors the process may have
  Std,                 \* those it is started with
  Paths,               \* where a Fifo can be opened
  CopiesInvalid,       \* a File that holds no descriptor may be copied
  MaxOpens             \* bound on the number of open file descriptions

Objects == Files \cup Pipes \cup Fifos

ASSUME DescriptorsAssumption ==
  /\ Fds \subseteq Nat /\ Std \subseteq Fds
  /\ MaxOpens \in Nat \ {0} /\ CopiesInvalid \in BOOLEAN
  /\ Files \cap Pipes = {} /\ Files \cap Fifos = {} /\ Pipes \cap Fifos = {}
  /\ Paths \cap {"", "r", "w", "-"} = {}

NoFd   == -1  \* fd_ of an object that is not valid
NoDesc == 0   \* a free entry of the table

VARIABLES
  table,   \* the open file description each descriptor refers to
  labels,  \* what each description is: an end of a pipe, a path, or "-"
  live,    \* the objects that exist
  fd_,     \* File::fd_
  label_,  \* Pipe::read_end_ ("r" or "w") and Fifo::pathname_
  own      \* history: the description the object has obtained

vars == <<table, labels, live, fd_, label_, own>>

\* The descriptors of Std refer to one description: the terminal.
StdDesc == 1

Init ==
  /\ table = [f \in Fds |-> IF f \in Std THEN StdDesc ELSE NoDesc]
  /\ labels = <<"-">>
  /\ live = {}
  /\ fd_ = [o \in Objects |-> NoFd]
  /\ label_ = [o \in Objects |-> "-"]
  /\ own = [o \in Objects |-> NoDesc]

-----------------------------------------------------------------------------
(* The kernel.                                                             *)

\* The lowest descriptor that is free in a table, if there is one.
LowestFree(tab) ==
  {f \in Fds : tab[f] = NoDesc /\ \A g \in Fds : tab[g] = NoDesc => f <= g}

\* open(2) or dup(2) gives o the lowest free descriptor of the table tab.
Given(o, tab, d) ==
  /\ d # NoDesc
  /\ \E f \in LowestFree(tab) : /\ table' = [tab EXCEPT ![f] = d]
                                /\ fd_' = [fd_ EXCEPT ![o] = f]
  /\ own' = [own EXCEPT ![o] = d]

\* They fail when the table is full, dup(2) also when its argument is closed.
Refused(o, tab, d, code) ==
  /\ d = NoDesc \/ LowestFree(tab) = {}
  /\ table' = tab /\ fd_' = [fd_ EXCEPT ![o] = code]
  /\ own' = [own EXCEPT ![o] = NoDesc]

\* Mutant: the error number is kept as the descriptor.
BugObtain(o, tab, d) == Given(o, tab, d) \/ Refused(o, tab, d, -2)

Obtain(o, tab, d) == Given(o, tab, d) \/ Refused(o, tab, d, NoFd)

\* A new description with a label.
NewDesc == Len(labels) + 1
Fresh(l) == Len(labels) < MaxOpens /\ labels' = Append(labels, l)

-----------------------------------------------------------------------------
(* Construction.                                                           *)

Born(o) == o \notin live /\ live' = live \cup {o}

\* The default constructors: a Pipe that is not valid says it is a write end.
Default(o) ==
  /\ Born(o)
  /\ fd_' = [fd_ EXCEPT ![o] = NoFd] /\ own' = [own EXCEPT ![o] = NoDesc]
  /\ label_' = [label_ EXCEPT ![o] =
                  IF o \in Pipes THEN "w" ELSE IF o \in Fifos THEN "" ELSE "-"]
  /\ UNCHANGED <<table, labels>>

\* File(pathname, flags, mode), or an open(2) that fails: no such file.
OpenFile(o) ==
  /\ o \in Files /\ Born(o)
  /\ \/ Fresh("-") /\ Obtain(o, table, NewDesc)
     \/ Obtain(o, table, NoDesc) /\ UNCHANGED labels
  /\ UNCHANGED label_

\* File(fd), used for STDIN_FILENO and STDOUT_FILENO: nothing is duplicated.
Adopt(o, f) ==
  /\ o \in Files /\ Born(o)
  /\ f \in Std /\ table[f] = StdDesc /\ \A p \in live : fd_[p] # f
  /\ fd_' = [fd_ EXCEPT ![o] = f] /\ own' = [own EXCEPT ![o] = table[f]]
  /\ UNCHANGED <<table, labels, label_>>

\* Pipe::create(): both ends, or two Pipes that are not valid.
PipeCreate(r, w) ==
  /\ r \in Pipes \ live /\ w \in Pipes \ live /\ r # w
  /\ live' = live \cup {r, w}
  /\ \/ \E f, g \in Fds :
          /\ Len(labels) + 2 <= MaxOpens
          /\ f \in LowestFree(table) /\ g \in LowestFree([table EXCEPT ![f] = NewDesc])
          /\ table' = [table EXCEPT ![f] = NewDesc, ![g] = NewDesc + 1]
          /\ labels' = labels \o <<"r", "w">>
          /\ fd_' = [fd_ EXCEPT ![r] = f, ![w] = g]
          /\ own' = [own EXCEPT ![r] = NewDesc, ![w] = NewDesc + 1]
          /\ label_' = [label_ EXCEPT ![r] = "r", ![w] = "w"]
     \/ /\ \A f, g \in Fds : table[f] = NoDesc /\ table[g] = NoDesc => f = g
        /\ fd_' = [fd_ EXCEPT ![r] = NoFd, ![w] = NoFd]
        /\ own' = [own EXCEPT ![r] = NoDesc, ![w] = NoDesc]
        /\ label_' = [label_ EXCEPT ![r] = "w", ![w] = "w"]
        /\ UNCHANGED <<table, labels>>

\* Fifo(pathname, mode): the path is kept also when mkfifo() or open() fails.
OpenFifo(o, path) ==
  /\ o \in Fifos /\ Born(o)
  /\ label_' = [label_ EXCEPT ![o] = path]
  /\ \/ Fresh(path) /\ Obtain(o, table, NewDesc)
     \/ Obtain(o, table, NoDesc) /\ UNCHANGED labels

-----------------------------------------------------------------------------
(* Copies, moves and destruction, between objects of one class.            *)

SameClass(o, p) == \E class \in {Files, Pipes, Fifos} : {o, p} \subseteq class

DescOf(p, tab) == IF fd_[p] = NoFd THEN NoDesc ELSE tab[fd_[p]]

\* close(2) is called unless fd_ is 0 or less.
Released(o) == IF fd_[o] > 0 THEN [table EXCEPT ![fd_[o]] = NoDesc] ELSE table

\* Mutant: the descriptor is shared instead of duplicated.
BugCopyConstruct(o, p) ==
  /\ SameClass(o, p) /\ p \in live /\ Born(o)
  /\ label_' = [label_ EXCEPT ![o] = label_[p]]
  /\ fd_' = [fd_ EXCEPT ![o] = fd_[p]] /\ own' = [own EXCEPT ![o] = own[p]]
  /\ UNCHANGED <<table, labels>>

\* The copy constructors of Pipe and Fifo set fd_ to -1 when the source is
\* not valid; that of File does not set it.
CopyConstruct(o, p) ==
  /\ SameClass(o, p) /\ p \in live /\ Born(o)
  /\ label_' = [label_ EXCEPT ![o] = label_[p]]
  /\ \/ /\ fd_[p] # NoFd \/ o \notin Files
        /\ Obtain(o, table, DescOf(p, table))
     \/ /\ fd_[p] = NoFd /\ o \in Files /\ CopiesInvalid
        /\ \E garbage \in Fds \cup {NoFd} : fd_' = [fd_ EXCEPT ![o] = garbage]
        /\ own' = [own EXCEPT ![o] = NoDesc]
        /\ UNCHANGED table
  /\ UNCHANGED labels

\* Mutant: the descriptor held before is not closed.
BugCopyAssign(o, p) ==
  /\ SameClass(o, p) /\ o \in live /\ p \in live /\ o # p
  /\ label_' = [label_ EXCEPT ![o] = label_[p]]
  /\ Obtain(o, table, DescOf(p, table))
  /\ UNCHANGED <<labels, live>>

\* Self-assignment returns at once.
CopyAssign(o, p) ==
  /\ SameClass(o, p) /\ o \in live /\ p \in live /\ o # p
  /\ label_' = [label_ EXCEPT ![o] = label_[p]]
  /\ Obtain(o, Released(o), DescOf(p, Released(o)))
  /\ UNCHANGED <<labels, live>>

\* Mutant: the label of the destination stays.
BugMoveLabel(o, p) == UNCHANGED label_

\* What is left of the label: a Pipe that is moved from keeps it, and loses
\* it when it is moved to itself with a descriptor; a Fifo's path is gone.
MoveLabel(o, p) ==
  label_' = [label_ EXCEPT ![o] = IF o = p /\ o \in Pipes /\ fd_[o] > 0 THEN "w"
                                  ELSE label_[p],
                           ![p] = IF p \in Fifos THEN "" ELSE @]

MoveConstruct(o, p) ==
  /\ SameClass(o, p) /\ p \in live /\ Born(o)
  /\ fd_' = [fd_ EXCEPT ![o] = fd_[p], ![p] = NoFd]
  /\ own' = [own EXCEPT ![o] = own[p], ![p] = NoDesc]
  /\ MoveLabel(o, p)
  /\ UNCHANGED <<table, labels>>

\* What the destination still holds when it has closed what it closes.
Rest(o) == IF fd_[o] > 0 THEN NoFd ELSE fd_[o]

\* Mutant: the source is not given the rest of the destination.
BugMoveAssign(o, p) ==
  /\ SameClass(o, p) /\ o \in live /\ p \in live
  /\ table' = Released(o)
  /\ fd_' = [fd_ EXCEPT ![o] = fd_[p]]
  /\ own' = [own EXCEPT ![o] = own[p]]
  /\ MoveLabel(o, p)
  /\ UNCHANGED <<labels, live>>

MoveAssign(o, p) ==
  /\ SameClass(o, p) /\ o \in live /\ p \in live
  /\ table' = Released(o)
  /\ fd_' = [fd_ EXCEPT ![o] = fd_[p], ![p] = Rest(o)]
  /\ own' = [own EXCEPT ![o] = own[p], ![p] = IF Rest(o) = NoFd THEN NoDesc ELSE own[o]]
  /\ MoveLabel(o, p)
  /\ UNCHANGED <<labels, live>>

\* The members of an object that does not exist mean nothing: reset here.
Destroy(o) ==
  /\ o \in live /\ live' = live \ {o}
  /\ table' = Released(o)
  /\ fd_' = [fd_ EXCEPT ![o] = NoFd] /\ own' = [own EXCEPT ![o] = NoDesc]
  /\ label_' = [label_ EXCEPT ![o] = "-"]
  /\ UNCHANGED labels

-----------------------------------------------------------------------------
Next == \/ \E o \in Objects :
             \/ Default(o) \/ OpenFile(o) \/ Destroy(o)
             \/ \E f \in Std : Adopt(o, f)
             \/ \E path \in Paths : OpenFifo(o, path)
             \/ \E p \in Objects : \/ PipeCreate(o, p)
                                   \/ CopyConstruct(o, p) \/ CopyAssign(o, p)
                                   \/ MoveConstruct(o, p) \/ MoveAssign(o, p)

Spec == Init /\ [][Next]_vars

-----------------------------------------------------------------------------
(* Correctness.                                                            *)

Label == {"-", "r", "w", ""} \cup Paths

TypeOK ==
  /\ table \in [Fds -> 0 .. MaxOpens]
  /\ labels \in Seq(Label) /\ Len(labels) <= MaxOpens
  /\ live \subseteq Objects
  /\ fd_ \in [Objects -> Fds \cup {NoFd}] /\ label_ \in [Objects -> Label]
  /\ own \in [Objects -> 0 .. MaxOpens]

Valid(o) == o \in live /\ fd_[o] # NoFd

\* However objects are copied, moved (also to themselves) and destroyed, no
\* two of them hold one descriptor, so that none closes another's.
Exclusive == \A o, p \in Objects : Valid(o) /\ Valid(p) /\ o # p => fd_[o] # fd_[p]

\* A descriptor that an object holds still refers to what the object
\* obtained: it was neither closed nor reused under it.
NotStale == \A o \in Objects : Valid(o) => own[o] # NoDesc /\ table[fd_[o]] = own[o]

\* Every open descriptor is held by an object, except those the process was
\* started with.
NoLeak == \A f \in Fds :
  table[f] # NoDesc => \/ f \in Std /\ table[f] = StdDesc
                       \/ \E o \in Objects : Valid(o) /\ fd_[o] = f

\* is_read_end() and pathname() tell the truth of a valid Pipe or Fifo.
LabelTrue == \A o \in Pipes \cup Fifos : Valid(o) => label_[o] = labels[table[fd_[o]]]
=============================================================================
