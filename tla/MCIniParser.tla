----------------------------- MODULE MCIniParser -----------------------------
(* thj.ini for TLC: sections s, t and a, the keys s:a and t:a, and the keys    *)
(* that these become in a file without sections.                               *)
EXTENDS IniParser, TLC

IniKeys == {<<"s">>, <<"t">>, <<"a">>, <<"s", "a">>, <<"t", "a">>, <<"", "a">>,
            <<"", "s", "a">>, <<"", "", "a">>, <<"", "", "s", "a">>}

(* The sections have one hash, and s:a has that of an empty slot. *)
SomeHash == [k \in IniKeys |-> IF Len(k) = 1 THEN 1 ELSE IF k = <<"s", "a">> THEN 0 ELSE 2]

Cut == [v \in {"1", "2;", "2", "", "..", "(null)"} |-> IF v = "2;" THEN "2" ELSE v]

SomeEdits == {<<"s">>, <<"s", "a">>, <<"", "a">>}

S == SectionLine(<<"s">>)
T == SectionLine(<<"t">>)
A(v) == ValueLine(<<"a">>, v)

SomeFiles ==
    {<<S, A("1"), T, A("2;")>>,
     <<T, S, A("1"), A("2"), BlankLine>>,
     <<S, A("1"), CommentLine, ErrorLine, T, A("2")>>,
     <<S, A("1"), ErrorLine>>,
     <<S, A("1"), T, CutLine>>,
     <<A("1"), S>>,
     <<A("1"), BlankLine>>,
     <<S, GoesOn(A("1")), T, A("2")>>,
     <<S, GoesOn(BlankLine), A("1"), GoesOn(T)>>,
     <<S, GoesOn([ErrorLine EXCEPT !.key = <<"a">>]), ErrorLine>>}

=============================================================================
