------------------------------ MODULE MCAnswers ------------------------------
EXTENDS AnswerPath
CONSTANTS u1, u2, u3, w1, w2
MCPrompt == [u \in Requests |-> <<"prompt">>]
MCSetups ==
  {[requests |-> {}, sampled |-> {}, profiles |-> <<"default">>],
   [requests |-> {u1, u2, u3}, sampled |-> {}, profiles |-> <<"default">>],
   [requests |-> {u1, u2}, sampled |-> {u1}, profiles |-> <<"default">>],
   [requests |-> {u1}, sampled |-> {u1}, profiles |-> <<"default", "secondary">>]}
MCDiscount == <<1000, 631, 500, 431>>
MCVariants == [sparse : {0, 3}, dense : {0, 2}, fusion : {0, 1, 60}, candidates : 0..2, keep : 0..2]
=============================================================================
