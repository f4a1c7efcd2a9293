------------------------------ MODULE MCSession ------------------------------
(***************************************************************************)
(* One file, an array of six cells, names of one letter, and lines with   *)
(* every kind of word, for TLC.                                            *)
(***************************************************************************)
EXTENDS Session

AnA == <<"a">>
AnR == <<"r">>
ARA == <<"r", "a">>
SomeContents == {<<>>, <<"x", "nl">>}
SomeTails == {<<>>, << <<"x">> >>, << <<>>, <<"exit">> >>}
SomeFlags ==
    [w \in {"-n", "-b", "-sE", "--squeeze-blank", "--"} |->
        CASE w = "-n" -> Short({"n"}) [] w = "-b" -> Short({"b"}) [] w = "-sE" -> Short({"s", "E"})
          [] w = "--" -> EndOfOptions [] OTHER -> Long({"s"})]
SomeLines == {
    << <<"ls">>, <<>>, <<"exit">>, <<"echo", "x">> >>,
    << <<"say", "hi">>, <<"list">> >>,
    << <<"admin", "make", "f">>, <<"bye">>, <<"ls">> >>,
    << <<"write", "f">>, <<"read">>, <<"write", "f">> >>,
    << <<"ls">>, <<"admin", "!!">> >>,
    << <<>> >>,
    << <<"admin", "admin", "read", "f">>, <<>> >>}
    \cup {<< <<"cat">> \o args >> : args \in UNION {[1 .. n -> {"f"} \cup DOMAIN SomeFlags] : n \in 0 .. 2}}
=============================================================================
