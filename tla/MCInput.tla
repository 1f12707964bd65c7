-------------------------------- MODULE MCInput --------------------------------
(* Aliases that end in a blank, refer to themselves or to each other, hold  *)
(* several lines or nothing; NULs and a last line without a newline.        *)
EXTENDS Input

MCNames == {"a", "b"}
MCValues == {<<>>, <<"b", " ">>, <<"a", ";", "z", "\n", "a">>}
MCScripts ==
  {<<"z", "\n", "a", ";", "b", " ", "a", "\n">>,
   <<"z", "\n", "b", " ", "a", "\n", "0", "a", " ", "\\", "\n", "a", "\\">>,
   <<"0", "\n">>}
MCStrings == {<<"a", "\\", "b", ";", "\\", "b">>, <<"z", "z", ";", ";">>}
===============================================================================
