------------------------------ MODULE MCIntake ------------------------------
(***************************************************************************)
(* A small instance of Intake.  The manual record of a pending case gives  *)
(* it the reference that the provider's events name; of these one says     *)
(* nothing, and two contradict each other.                                 *)
(***************************************************************************)
EXTENDS Intake, TLC

CONSTANTS c1, c2, s1, s2, seed, good, bad, odd

MCCatalog == [e \in Events |->
    [manual |-> e = seed,
     status |-> CASE e = seed -> "pending" [] e = good -> "eligible"
                  [] e = bad -> "ineligible" [] e = odd -> None,
     ref |-> "case-42"]]

Mixing(ops, publish, expire) == [ops |-> ops, publish |-> publish, expire |-> expire]

Papers == Mixing({"consent", "profile", "progress"}, {"consent"}, {})
Promises == Mixing({"consent", "covenant", "submit", "progress"}, {"covenant"}, {})
Assessment == Mixing({"submit", "progress"}, {"assessment"}, {"assessment"})
Approvals == Mixing({"assign", "decide", "progress"}, {}, {"decision"})
Booking == Mixing(SessionOps \cup {"assign"}, {}, {})
Screening == Mixing({"screen", "consent", "progress"}, {}, {"screening"})

MCAgendas == {Papers, Promises, Assessment, Approvals, Booking, Screening}

Interchangeable == {p @@ q : p \in Permutations(Sessions), q \in Permutations(Counselors)}
=============================================================================
