-------------------------- MODULE MCTeleopKeyboard --------------------------
EXTENDS TeleopKeyboard

CONSTANT AllKeys   \* the keys of the table in both cases, and some others

\* Each key means what the table of the tests says, in both cases.
ASSUME KeyTable == \A c \in AllKeys : Translate(Normalize(c)) = Meaning(c)
=============================================================================
