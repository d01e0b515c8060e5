------------------------------ MODULE MCOutBuf ------------------------------
(***************************************************************************)
(* OutBuf for every pair of a directive or literal, with a buffer shorter  *)
(* than some of the texts, against what the format means (Format).         *)
(***************************************************************************)
EXTENDS Format, TLC

MCChr  == [w \in 0..(WORD - 1) |-> ToString(w)]
MCText == [w \in 0..(WORD - 1) |->
             CASE w = 0 -> <<"n", "u", "l", "l">>
               [] w = WORD \div 2 -> <<>>
               [] OTHER -> <<"p", "q", "r", "s", "t", "u", "v">>]
ArgWords == {0, WORD \div 2, WORD - 1}
MCArgs == [1..4 -> ArgWords]

Items ==
    {<<"a">>, <<"%">>} \cup
    {<<"%">> \o p \o <<c>> : p \in {<<>>, <<"l">>, <<"l", "l">>, <<"h", "h">>},
                             c \in {"d", "X"}} \cup
    {<<"%", "i">>, <<"%", "u">>, <<"%", "l", "l", "x">>, <<"%", "l", "l", "o">>,
     <<"%", "c">>, <<"%", "s">>, <<"%", "p">>, <<"%", "%">>,
     <<"%", "h", "s">>, <<"%", "h", "l">>, <<"%", "l", "z">>, <<"%", "z">>}
MCFormats == {i \o j : i \in Items, j \in Items}
=============================================================================
