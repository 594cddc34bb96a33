----------------------------- MODULE MCLibrary -----------------------------
(***************************************************************************)
(* The MBot and the library functions that the programs are built with.    *)
(* They share no state: every behaviour is one of MBot, of Serialization,  *)
(* of Packets, of ArgumentParser or of one of the two machines of Clock.   *)
(***************************************************************************)
EXTENDS Serialization, Packets, ArgumentParser, Clock, MBot

VARIABLE part  \* the machine that runs

libVars == <<codecVars, packetVars, parserVars, clockVars>>
allVars == <<part, libVars, vars>>

PartsInit == /\ part \in {"mbot", "codec", "packets", "parser", "duration", "rate"}
             /\ CodecInit /\ PacketInit /\ ParserInit /\ ClockInit /\ Init
             /\ part # "codec" => buf = <<>>

PartsNext ==
  /\ UNCHANGED part
  /\ \/ part = "mbot" /\ Next /\ UNCHANGED libVars
     \/ /\ UNCHANGED vars
        /\ \/ part = "codec" /\ CodecNext /\ UNCHANGED <<packetVars, parserVars, clockVars>>
           \/ part = "packets" /\ PacketNext /\ UNCHANGED <<codecVars, parserVars, clockVars>>
           \/ part = "parser" /\ ParserNext /\ UNCHANGED <<codecVars, packetVars, clockVars>>
           \/ part = "duration" /\ Arithmetic /\ UNCHANGED <<codecVars, packetVars, parserVars>>
           \/ part = "rate" /\ RateNext /\ UNCHANGED <<codecVars, packetVars, parserVars>>

\* MBot has its own fairness (FairSpec) where it runs; the others owe nothing.
PartsSpec ==
  /\ PartsInit /\ [][PartsNext]_allVars
  /\ WF_vars(part = "mbot" /\ MainStep) /\ WF_vars(part = "mbot" /\ SyncStep)
  /\ SF_vars(part = "mbot" /\ Lock(Main))

-----------------------------------------------------------------------------
\* Every buffer up to 8 bytes, and longer ones with a stamped twist in them,
\* its frame name n bytes long or cut off.
MCBuffers == SeqOf({0, 1}, 8) \cup
  {[i \in 1 .. len |-> CASE i = 7 -> n % 2 [] i = 8 -> n \div 2
                         [] OTHER -> (i \div p) % 2] : len \in 13 .. 18, n \in 0 .. 3, p \in {2, 3}}

Token(size, dashes, name, number) ==
  [size |-> size, dashes |-> dashes, name |-> name, number |-> number]
MCTokens == {Token(1, 0, "5", <<5>>), Token(4, 0, "fast", NaN), Token(2, 1, "v", NaN),
             Token(5, 2, "vec", NaN), Token(4, 2, "on", NaN), Token(2, 1, "7", <<-7>>)}

Option1(name, short, type, value, req) ==
  [name |-> name, size |-> 2, short |-> short, type |-> type, value |-> value, required |-> req]
MCOptions == {Option1("speed", NoShort, "int", 0, TRUE), Option1("word", NoShort, "string", "", TRUE),
              Option1("on", NoShort, "bool", TRUE, FALSE), Option1("vec", "v", "vector", <<1>>, FALSE),
              Option1("n", "7", "int", 1, FALSE)}

MCOperands == {-3, -1, 0, 1, 2, 5}
MCPeriods == {-1, 0, 1, 3}
=============================================================================
