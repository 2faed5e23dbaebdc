------------------------------ MODULE Upstreams ------------------------------
(***************************************************************************)
(* The upstream servers and the order in which they are asked: sortServers *)
(* and getScheme of internal/dns/handler.go.                               *)
(*                                                                         *)
(* A server is what stands before its "://", where "other" is any scheme   *)
(* that the code does not know, or one that does not parse, and            *)
(* "other:port" such a server with a port.  Of the addresses without "://" *)
(* "bare" has no colon, "ip:port" has one and begins with a digit, a colon *)
(* or a bracket (IPv6 addresses among them), "name:port" with a letter.    *)
(***************************************************************************)
EXTENDS Naturals, Sequences

Scheme == {"https", "doh", "tls", "dot", "tcp", "udp", "other", "other:port",
           "bare", "ip:port", "name:port"}

\* Addresses without "://" count as UDP, unknown schemes come last.
Priority(s) ==
  CASE s \in {"https", "doh"}                        -> 0
    [] s \in {"tls", "dot"}                          -> 1
    [] s = "tcp"                                     -> 2
    [] s \in {"udp", "bare", "ip:port", "name:port"} -> 3
    [] OTHER                                         -> 99

\* The servers at places i < j change places if they are in the wrong order.
Exchange(s, i, j) ==
  IF Priority(s[i]) > Priority(s[j])
  THEN [s EXCEPT ![i] = s[j], ![j] = s[i]] ELSE s

\* The inner loop: place i is compared with all later ones.
Row(s, i) ==
  LET swept[j \in i .. Len(s)] ==
        IF j = i THEN s ELSE Exchange(swept[j - 1], i, j)
  IN  swept[Len(s)]

SortServers(servers) ==
  LET sorted[i \in 0 .. Len(servers)] ==
        IF i = 0 THEN servers ELSE Row(sorted[i - 1], i)
  IN  sorted[Len(servers)]

\* What url.Parse leaves no host of is never reached: "bare" is taken for a path
\* and "name:port" for a scheme, while "ip:port" does not parse and is therefore
\* asked over UDP.  Of an unknown scheme, which is asked over UDP as well, the
\* port is not filled in.  A doh server becomes "https://doh://...".
Reachable(s) == s \notin {"bare", "name:port", "other", "doh"}
=============================================================================
