---------------------------- MODULE MCByteArray -----------------------------
(* ByteArray with bytes of three bits: numbers of three bits, two of them  *)
(* in a byte.                                                              *)
EXTENDS ByteArray

MCTexts == {<<>>, <<1>>, <<1, 2>>}

\* No call depends on what the call before returned.
MCView == <<ba, little, sound, alive>>
=============================================================================
