-------------------------- MODULE MCProtocolStream --------------------------
(***************************************************************************)
(* Values for the constants of ProtocolStream: bytes of three bits, groups *)
(* of two bits, strings whose length takes one and two bytes.              *)
(***************************************************************************)
EXTENDS ProtocolStream

MCTexts == {<<>>, <<7>>, <<4, 5, 1>>, <<1, 7, 0, 6>>}

MCLongs == {0, 31, -5}
=============================================================================
