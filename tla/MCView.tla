------------------------------- MODULE MCView -------------------------------
(* View with two named rooms or one of them: r2 is opened and deleted, which    *)
(* leads back to r1 or, without r1, to no room.                                 *)
EXTENDS View

CONSTANTS r1, r2

TwoOrOne == {{r1, r2}, {r2}}
SomeButtons == {<<"switchSession", r2>>, <<"deleteSession", r2>>}
=============================================================================
