------------------------------ MODULE MCPlanning --------------------------------
(* Instance for TLC: every list of three tasks a, b, c with up to two dependencies
   each, some of four, shorter lists with unknown dependencies and repeated ids, and every crew
   of up to three roles. *)
EXTENDS Planning

UpTo(n, S) == UNION {[1..k -> S] : k \in 0..n}
Task(i, d) == [id |-> i, deps |-> d]

MCFew == {<<>>, <<"a">>, <<"c", "b">>, <<"d">>}

MCDags ==
    {<<Task("a", d), Task("b", e), Task("c", f)>> :
        d \in UpTo(2, {"a", "b", "c"}), e \in UpTo(2, {"a", "b", "c"}), f \in UpTo(2, {"a", "b", "c"})}
    \cup {<<Task("a", d), Task("b", e), Task("c", f), Task("d", g)>> :
        d \in MCFew, e \in MCFew, f \in MCFew, g \in MCFew}
    \cup UpTo(2, {Task(i, d) : i \in {"a", "b"}, d \in UpTo(1, {"a", "b", "x"})})

MCCrews == UpTo(3, Role)
================================================================================
