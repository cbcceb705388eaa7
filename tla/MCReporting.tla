----------------------------- MODULE MCReporting -----------------------------
(* Small instances of Reporting.                                           *)
EXTENDS Reporting

\* The second caller's name makes the key of the first one's log batches.
Namesakes == {<<"a">>, <<"logs", "a">>}
Strangers == {<<"a">>, <<"b">>, <<"c">>}
ALimit   == [report |-> 2, logs |-> 1]
ACeiling == [report |-> 2, logs |-> 1]
OneEach  == [report |-> 1, logs |-> 1]

Form(t, d, w) == [title |-> t, service |-> 1, description |-> d, width |-> w]

\* On a bound, beyond it, and too many bytes for its characters.
ThreeForms == {Form(200, 12000, 1), Form(201, 10, 1), Form(3, 12000, 3)}
OneForm    == {Form(200, 12000, 1)}
=============================================================================
