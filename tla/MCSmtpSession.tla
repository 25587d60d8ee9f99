---------------------------- MODULE MCSmtpSession ----------------------------
(* SmtpSession on small sets.                                              *)
EXTENDS SmtpSession, TLC

\* A message without headers, and for each address one whose headers name it as
\* the sender and the only recipient, with copies to those not allowed to send.
MCContents ==
    {[from |-> NullSender, to |-> {}, copies |-> {}]} \cup
    {[from |-> a, to |-> {a}, copies |-> Addresses \ AllowedSenders] :
        a \in Addresses}

\* No connection and no mail differs from another.
SessionSymmetry == Permutations(Conns) \cup Permutations(Mails)
=============================================================================
