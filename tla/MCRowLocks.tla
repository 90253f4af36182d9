----------------------------- MODULE MCRowLocks -----------------------------
(* Two channels of one user; one request enables or disables the first     *)
(* channel while another one deletes it or the second.                     *)
EXTENDS RowLocks

CONSTANTS c1, c2, q1, q2
TwoChannels == {c1, c2}
TwoRequests == {q1, q2}
Asked ==
    [id : {q1}, op : {"enable", "disable"}, channel : {c1}]
      \union [id : {q2}, op : {"delete"}, channel : {c1, c2}]
=============================================================================
