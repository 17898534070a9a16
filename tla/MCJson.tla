-------------------------------- MODULE MCJson --------------------------------
(***************************************************************************)
(* Instance for TLC: every text of up to four cells, and of five pieces    *)
(* that nest and repeat; a few trees are edited and printed.                           *)
(***************************************************************************)
EXTENDS JsonPrintProperties

Pieces == {<<"[">>, <<"{">>, <<"]">>, <<"}">>, <<",">>, <<"scalar">>,
           <<"string", ":", "scalar">>, <<"blank", "string", "blank", ":">>,
           <<",", "scalar">>, <<",", "string", ":">>}

MCTexts ==
  UNION {[1 .. n -> Cells] : n \in 0 .. 4}
    \cup {a \o b \o c \o d \o e : a, b, c, d, e \in Pieces}

\* [], [scalar, string], {"string": scalar} and {"string": [scalar]}
MCEditedTexts ==
  {<<"[", "]">>, <<"[", "scalar", ",", "string", "]">>, <<"{", "string", ":", "scalar", "}">>,
   <<"{", "string", ":", "[", "scalar", "]", "}">>}

=============================================================================
