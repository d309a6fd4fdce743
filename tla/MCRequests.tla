----------------------------- MODULE MCRequests -----------------------------
(* Requests for TLC: every handler, and every check of every handler.          *)
EXTENDS Requests

CONSTANTS a, b, k1

Request(e, m, s) ==
    [entity |-> e, method |-> m, signature |-> s, bad |-> {}, rows |-> <<>>, chunks |-> 0,
     keyid |-> "write", key |-> Erased]

Good(t) == [time |-> t, good |-> TRUE]
Bad(t)  == [time |-> t, good |-> FALSE]

Post(s, t) == [Request("values", "POST", s) EXCEPT !.rows = <<Good(t)>>, !.chunks = 1]

Upload(rows) == [Request("csv", "POST", Unsigned) EXCEPT !.rows = rows, !.chunks = 1]

PutKey(k, key) == [Request("key", "PUT", Admin) EXCEPT !.keyid = k, !.key = key]

MCRequests ==
    {\* signed by the administrator though nobody asks for it: sent by one connection only,
     \* for the sake of the run's size
     Request("root", "GET", Admin), Request("nodes", "GET", Admin),
     Request("series", "GET", Admin), Request("other", "GET", Admin),
     Request("root", "POST", Admin), Request("values", "GET", Admin),
     [Request("slot", "GET", Admin) EXCEPT !.rows = <<Good(1)>>, !.bad = {"grid"}],
     [Request("metric", "GET", Admin) EXCEPT !.bad = {"metric"}],
     [Post(Admin, 1) EXCEPT !.bad = {"count"}],
     Request("node", "GET", Unsigned), [Request("node", "GET", k1) EXCEPT !.bad = {"url"}],
     Request("node", "PUT", Admin), Request("node", "PUT", Unsigned),
     [Request("node", "PUT", Admin) EXCEPT !.bad = {"payload"}],
     Request("node", "DELETE", Admin),
     Request("keys", "GET", Admin), Request("key", "GET", Admin),
     PutKey("write", k1), PutKey("write", Erased),
     Post(k1, 1),
     [Request("slot", "GET", Unsigned) EXCEPT !.rows = <<Good(1)>>],
     Request("metric", "GET", k1),
     \* refused at its second row or at its third, as the node starts at the first or before
     Upload(<<Good(1), Good(0), Bad(1)>>),
     [Upload(<<Good(0), Good(1)>>) EXCEPT !.bad = {"cut"}, !.chunks = 2]}
=============================================================================
