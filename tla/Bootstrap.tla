----------------------------- MODULE Bootstrap ------------------------------
(***************************************************************************)
(* The scan of what `mosh-server new' printed over SSH (src/bootstrap.rs,  *)
(* parse_mosh_bootstrap).  A line is a probe ("MOSH SSH_CONNECTION " and   *)
(* its words), a connect ("MOSH CONNECT " with a port and a key), or       *)
(* anything else; what matters of its text is whether it is well formed.   *)
(***************************************************************************)
EXTENDS SequencesExt

Probe(ip, good) == [kind |-> "probe", ip |-> ip, good |-> good]
Connect(port, good) == [kind |-> "connect", port |-> port, good |-> good]
Other == [kind |-> "other"]

NoIp == "None"
NoPort == "None"

Failed(error) == [error |-> error, server_ip |-> NoIp, port |-> NoPort]
Scanning == [error |-> "", server_ip |-> NoIp, port |-> NoPort]

\* Mutant: a later connect line replaces an earlier one.
ScanLastConnect(scan, line) ==
  CASE scan.error # "" -> scan
    [] scan.error = "" /\ line.kind = "probe" ->
         IF ~ line.good \/ scan.server_ip # NoIp THEN Failed("BadConnection")
         ELSE [scan EXCEPT !.server_ip = line.ip]
    [] scan.error = "" /\ line.kind = "connect" ->
         IF ~ line.good THEN Failed("BadConnect") ELSE [scan EXCEPT !.port = line.port]
    [] OTHER -> scan

\* One line; an error returns at once.
Scan(scan, line) ==
  CASE scan.error # "" -> scan
    [] scan.error = "" /\ line.kind = "probe" ->
         IF ~ line.good \/ scan.server_ip # NoIp THEN Failed("BadConnection")
         ELSE [scan EXCEPT !.server_ip = line.ip]
    [] scan.error = "" /\ line.kind = "connect" /\ scan.port = NoPort ->
         IF ~ line.good THEN Failed("BadConnect") ELSE [scan EXCEPT !.port = line.port]
    [] OTHER -> scan

parse_mosh_bootstrap(lines) ==
  LET scan == FoldLeft(Scan, Scanning, lines)
  IN  IF scan.error = "" /\ scan.port = NoPort THEN Failed("NoConnect") ELSE scan
=============================================================================
