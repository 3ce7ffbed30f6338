----------------------------- MODULE MCCApiEngine -----------------------------
(***************************************************************************)
(* Scripts for CApiEngine.                                                 *)
(***************************************************************************)
EXTENDS CApiEngine

CONSTANTS w1, w2

Life == {"engine_open", "engine_close", "engine_free"}
Quiet == [calls |-> Life, workers |-> {w1}, n |-> 0, faults |-> 0, arrivals |-> 0, acts |-> {}]

\* Blocking calls against close, free and open.
Blocking == [Quiet EXCEPT !.calls = @ \union {"tcp_accept"}, !.n = 5, !.workers = {w1, w2},
                          !.faults = 1]
Reopening == [Quiet EXCEPT !.calls = @ \union {"udp_accept"}, !.n = 6, !.faults = 1]
\* A connection that is closed while another thread reads.
Connection == [Quiet EXCEPT !.calls = {"engine_open", "engine_close", "tcp_accept", "tcp_recv",
                                       "tcp_close"},
                            !.n = 5, !.arrivals = 1, !.workers = {w1, w2}]
\* The other calls of a connection, and those of a session.
Sending == [Quiet EXCEPT !.calls = {"engine_open", "engine_free", "tcp_accept", "tcp_send",
                                    "tcp_reset", "tcp_is_open", "tcp_free"},
                         !.n = 5, !.arrivals = 2]
Session == [Quiet EXCEPT !.calls = {"engine_open", "engine_free", "udp_accept", "udp_recvfrom",
                                    "udp_sendto", "udp_close", "udp_is_open", "udp_set_timeout",
                                    "udp_free"},
                         !.n = 5, !.arrivals = 2]
\* Listening, paused and resumed, beside a blocking accept.
Listening == [Quiet EXCEPT !.calls = @ \union {"tcp_async_accept", "tcp_pause", "tcp_accept"},
                           !.n = 5, !.arrivals = 1, !.acts = {"pause", "close"}]
\* Reads and writes with callbacks that free what they use.
Callbacks == [Quiet EXCEPT !.calls = @ \union {"tcp_async_accept", "tcp_async_recv", "tcp_async_send"},
                           !.n = 4, !.arrivals = 2,
                           !.acts = {"recv", "send", "free_handle", "free"}]
FailingCallbacks == [Callbacks EXCEPT !.faults = 1, !.arrivals = 1]
UdpCallbacks == [Quiet EXCEPT !.calls = @ \union {"udp_async_accept", "udp_pause", "udp_async_recvfrom",
                                                  "udp_async_sendto"},
                              !.n = 4, !.arrivals = 2, !.acts = {"recv", "free"}]

MCScripts == {Blocking, Reopening, Connection, Sending, Session, Listening, Callbacks,
              FailingCallbacks, UdpCallbacks}
=============================================================================
