--------------------------- MODULE MCSpeechStream ---------------------------
(***************************************************************************)
(* SpeechStream on chunks of up to six tokens.  The cases that matter are  *)
(* a word and white space after a chunk's last stop, and white space at    *)
(* the very end.                                                           *)
(***************************************************************************)
EXTENDS SpeechStream

MixedShapes ==
  {<<"w">>, <<"b", "w">>, <<"w", "b">>, <<"w", ".">>, <<".", "b", "w">>,
   <<"w", ".", "b">>, <<"w", ".", "b", "w", "b">>,
   <<"w", ".", "b", "w", "b", "w">>}
=============================================================================
