----------------------------- MODULE MCProtocol -----------------------------
(* Instances of Protocol for TLC. *)
EXTENDS Protocol

Binary(bytes) == [binary |-> TRUE, bytes |-> bytes]

\* A steering angle, a profile of skin 10 with a name, a message that is too
\* long, and a text that would be a ping if it were binary.
MCMessages ==
  {Binary(<<115>>), Binary(<<115, 8, 10, 97>>), Binary(<<251, 0, 0, 0, 0>>),
   [binary |-> FALSE, bytes |-> <<251>>]}

\* A profile of skin 10 and of skin 20, both with the name "a".
MCProfiles == {Binary(<<115, 8, 10, 97>>), Binary(<<115, 8, 20, 97>>)}
=============================================================================
