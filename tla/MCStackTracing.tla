----------------------------- MODULE MCStackTracing -----------------------------
(* A small program for StackTracing.                                          *)
EXTENDS StackTracing

CONSTANTS A, B   \* modules

MCBlock == 1 .. 4
No == [b \in MCBlock |-> {}]
To(edges) == [b \in MCBlock |-> {e[2] : e \in {x \in edges : x[1] = b}}]

Plain ==  \* calls, with a pad that resumes, or goes round; two returns
  [next |-> To({<<1, 2>>, <<1, 1>>}), pads |-> To({<<1, 3>>}), calls |-> {1},
   returns |-> {2, 3}, resumes |-> {3}, object |-> "local", alloca |-> 1,
   starts |-> {}, ends |-> {}, returned |-> {}, uses |-> {"passed"}]
Byval == [Plain EXCEPT !.object = "byval", !.uses = {"cast"}]
Late == [Byval EXCEPT !.object = "late"]
Leaf ==  \* calls nothing
  [Plain EXCEPT !.calls = {}, !.pads = No, !.resumes = {}, !.next = To({<<1, 2>>}), !.uses = {"stored"}]
OwnCast == [Plain EXCEPT !.uses = {"cast"}, !.pads = No]
Sometimes ==  \* the alloca is on one of two ways to the return
  [Plain EXCEPT !.next = To({<<1, 2>>, <<1, 3>>, <<2, 3>>}), !.pads = No, !.calls = {2},
                !.alloca = 2, !.returns = {3}, !.resumes = {}]
Returned == [Plain EXCEPT !.returned = {2}]
Loop ==  \* the object lives in the body of a loop
  [Plain EXCEPT !.next = To({<<1, 2>>, <<2, 3>>, <<3, 2>>, <<3, 4>>}), !.pads = No,
                !.calls = {1, 2, 3}, !.returns = {4}, !.resumes = {}, !.starts = {2}, !.ends = {3}]
TwoEnds ==  \* and ends on the way of the exception as well
  [Loop EXCEPT !.pads = To({<<2, 4>>}), !.next = To({<<1, 2>>, <<2, 3>>}), !.calls = {2},
               !.returns = {3}, !.resumes = {4}, !.ends = {3, 4}]
PadFirst ==  \* with the pad before the normal end
  [TwoEnds EXCEPT !.pads = To({<<2, 3>>}), !.next = To({<<1, 2>>, <<2, 4>>}),
                  !.returns = {4}, !.resumes = {3}]
TwoStarts == [Loop EXCEPT !.next = To({<<1, 2>>, <<1, 3>>, <<2, 4>>, <<3, 4>>}), !.calls = {2, 3},
                          !.starts = {2, 3}, !.ends = {4}]

MCFunctions == {Plain, Byval, Late, Leaf, OwnCast, Sometimes, Returned, Loop, TwoEnds, PadFirst, TwoStarts}
MCCtor == [m \in {A, B} |-> IF m = A THEN Plain ELSE Loop]
===============================================================================
