--------------------------- MODULE ArgumentParser ---------------------------
(***************************************************************************)
(* ArgumentParser (src/rix/util/argument_parser.cpp and .hpp): arguments   *)
(* are added, then argv is parsed: the required ones by position, then     *)
(* options by long or short name, each with its value.                     *)
(*                                                                         *)
(* A token of argv is abstracted to what the parser can tell of it:        *)
(*   size    its length              dashes  how many it begins with       *)
(*   name    what follows "--", or the character after "-"                 *)
(*   number  <<what std::stoi makes of it>>, or NaN when that throws       *)
(* char and double are read as int is, each by a conversion of its own.    *)
(***************************************************************************)
EXTENDS Integers, Sequences, SequencesExt

CONSTANTS
  Tokens,   \* the tokens that argv is made of
  Options,  \* the arguments a program adds: [name, short, type, value, required]
  MaxAdds,  \* bound on the arguments added
  MaxArgs   \* bound on the length of argv, without the program's name

\* An argument is a record, and the value of a bool is one.
ASSUME ParserAssumption ==
  /\ MaxArgs \in Nat
  /\ \A a \in Options :
       /\ DOMAIN a = {"name", "size", "short", "type", "value", "required"}
       /\ a.type \in {"bool", "string", "int", "vector"}
       /\ a.type = "bool" => a.value \in BOOLEAN

NaN == <<>>
NoShort == "no short name"

VARIABLES
  args,      \* args_: the argument of each name
  required,  \* required_arg_names_
  shorts,    \* short_to_long_
  nadds,     \* history: arguments added so far
  before,    \* history: args_ when parse() was called
  argv,      \* the tokens to parse
  at,        \* how many of them are consumed
  step,      \* where parse() is
  uses       \* history: the arguments parsed, with the tokens each consumed

parserVars == <<args, required, shorts, nadds, before, argv, at, step, uses>>
table == <<args, required, shorts, nadds, before>>

-----------------------------------------------------------------------------
(* add(): a name of at least two characters, a bool is not required.       *)

WellFormed(a) == a.size >= 2 /\ ~(a.type = "bool" /\ a.required)

\* emplace() does nothing when the name is there.
Added(a) == [name \in DOMAIN args \cup {a.name} |->
               IF name \in DOMAIN args THEN args[name] ELSE a]

Add(a) ==
  /\ step = "add" /\ nadds < MaxAdds /\ WellFormed(a)
  /\ required' = (IF a.required THEN Append(required, a.name) ELSE required)
  /\ shorts' = (IF ~a.required /\ a.short # NoShort
                THEN (a.short :> a.name) @@ shorts ELSE shorts)
  /\ args' = Added(a) /\ nadds' = nadds + 1
  /\ UNCHANGED <<before, argv, at, step, uses>>

-----------------------------------------------------------------------------
(* parse_arg(): how many tokens a value of the type takes, from the one    *)
(* after the first o on, and what it is.                                   *)

Taken(n, v) == [ok |-> TRUE, n |-> n, val |-> v]
Refused_(v) == [ok |-> FALSE, n |-> 0, val |-> v]

Rest(o) == SubSeq(argv, o + 1, Len(argv))

\* The tokens of a vector: up to the next one that begins with a dash.
Run(o) ==
  LET dash == {i \in DOMAIN Rest(o) : Rest(o)[i].dashes > 0}
  IN IF dash = {} THEN Rest(o)
     ELSE SubSeq(Rest(o), 1, (CHOOSE i \in dash : \A j \in dash : i <= j) - 1)

Bad(s)     == \E i \in DOMAIN s : s[i].number = NaN
Numbers(s) == [i \in DOMAIN s |-> s[i].number[1]]

ParseBool(o, old) == Taken(0, ~old)

ParseString(o, old) ==
  IF o >= Len(argv) THEN Refused_(old) ELSE Taken(1, argv[o + 1].name)

ParseNumber(o, old) ==
  IF o >= Len(argv) \/ argv[o + 1].number = NaN THEN Refused_(old)
  ELSE Taken(1, argv[o + 1].number[1])

\* Mutant: what was there is kept.
BugParseVector(o, old) ==
  IF o >= Len(argv) THEN Refused_(old)
  ELSE IF Bad(Run(o)) THEN Refused_(<<>>)
  ELSE Taken(Len(Run(o)), old \o Numbers(Run(o)))

ParseVector(o, old) ==
  IF o >= Len(argv) THEN Refused_(old)
  ELSE IF Bad(Run(o)) THEN Refused_(<<>>)
  ELSE Taken(Len(Run(o)), Numbers(Run(o)))

ParseValue(a, o) ==
  CASE a.type = "bool"   -> ParseBool(o, a.value)
    [] a.type = "string" -> ParseString(o, a.value)
    [] a.type = "int"    -> ParseNumber(o, a.value)
    [] a.type = "vector" -> ParseVector(o, a.value)

\* parse_arg() of the argument called name, whose value is at o, and where
\* parse() goes from there.
ParseArg(name, from, o, next) ==
  LET r == ParseValue(args[name], o)
  IN /\ args' = [args EXCEPT ![name].value = r.val]
     /\ at' = o + r.n
     /\ uses' = Append(uses, [name |-> name, from |-> from, to |-> o + r.n, ok |-> r.ok])
     /\ step' = (IF r.ok THEN next ELSE "failed")
     /\ UNCHANGED <<required, shorts, nadds, before, argv>>

-----------------------------------------------------------------------------
(* parse().                                                                *)

Call(v) == /\ step = "add" /\ argv' = v /\ before' = args
           /\ step' = (IF Len(v) < Len(required) THEN "failed" ELSE "required")
           /\ UNCHANGED <<args, required, shorts, nadds, at, uses>>

\* The required arguments, in the order added.
RequiredArg == /\ step = "required" /\ Len(uses) < Len(required)
               /\ ParseArg(required[Len(uses) + 1], at, at, "required")
RequiredDone == /\ step = "required" /\ Len(uses) = Len(required) /\ step' = "options"
                /\ UNCHANGED <<table, argv, at, uses>>

\* The long name that a token stands for, or none.
LongName(t) ==
  IF t.size = 2 THEN {shorts[s] : s \in {s \in DOMAIN shorts : t.dashes = 1 /\ t.name = s}}
  ELSE IF t.size >= 4 /\ t.dashes = 2 THEN {t.name}
  ELSE {}

Known(t) == LongName(t) \cap DOMAIN args

Option == /\ step = "options" /\ at < Len(argv)
          /\ \E name \in Known(argv[at + 1]) : ParseArg(name, at, at + 1, "options")
Unknown == /\ step = "options" /\ at < Len(argv) /\ Known(argv[at + 1]) = {}
           /\ step' = "failed" /\ at' = at + 1
           /\ UNCHANGED <<table, argv, uses>>
Finish == /\ step = "options" /\ at = Len(argv) /\ step' = "parsed"
          /\ UNCHANGED <<table, argv, at, uses>>

ParserInit ==
  /\ args = <<>> /\ required = <<>> /\ shorts = <<>> /\ nadds = 0 /\ before = <<>>
  /\ argv = <<>> /\ at = 0 /\ step = "add" /\ uses = <<>>

ParserNext == \/ \E a \in Options : Add(a)
              \/ \E v \in SeqOf(Tokens, MaxArgs) : Call(v)
              \/ RequiredArg \/ RequiredDone \/ Option \/ Unknown \/ Finish

-----------------------------------------------------------------------------
(* Correctness.                                                            *)

\* The successful uses of an argument.
Good(name) == {i \in DOMAIN uses : uses[i].name = name /\ uses[i].ok}

\* One of its values was not a number.
Emptied(name) == \E i \in DOMAIN uses : /\ uses[i].name = name /\ ~uses[i].ok
                                        /\ args[name].type = "vector" /\ uses[i].to < Len(argv)

\* The tokens of a use, an option's name left out.
TokensOf(i) ==
  SubSeq(argv, uses[i].from + (IF i \in DOMAIN required THEN 1 ELSE 2), uses[i].to)

\* What a value is by the tokens that a use of its argument consumed, the
\* option itself left out.
Denotes(type, ts) ==
  CASE type = "string" -> ts[1].name
    [] type = "int"    -> ts[1].number[1]
    [] type = "vector" -> Numbers(ts)

\* After parse(), successful or not, an argument has the value of its last
\* use, a bool the default as often negated as it was used, and one that
\* was not used its default.  The argument whose value did not parse keeps
\* what it had, but a vector one of whose tokens is not a number is emptied.
ValuesAreWhatArgvSays ==
  step # "add" => \A name \in DOMAIN args :
    LET a == args[name]
    IN CASE a.type = "bool" -> a.value # before[name].value <=> Cardinality(Good(name)) % 2 = 1
         [] Emptied(name)   -> a.value = <<>>
         [] OTHER -> a.value = IF Good(name) = {} THEN before[name].value
                               ELSE Denotes(a.type, TokensOf(Max(Good(name))))

\* parse() returns true only when every token was consumed by one argument
\* and by no other, the first ones by the required arguments in their order.
EveryTokenIsUsed ==
  step = "parsed" =>
    /\ \A i \in DOMAIN uses :
         uses[i].ok /\ uses[i].from = (IF i = 1 THEN 0 ELSE uses[i - 1].to)
    /\ Len(argv) = (IF uses = <<>> THEN 0 ELSE uses[Len(uses)].to)
    /\ [i \in 1 .. Len(required) |-> uses[i].name] = required

\* The command line is understood whole: every token has one meaning, and
\* the arguments have the values that the tokens mean.
ParsedAsGiven == ValuesAreWhatArgvSays /\ EveryTokenIsUsed
=============================================================================
