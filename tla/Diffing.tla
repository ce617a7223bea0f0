------------------------------ MODULE Diffing ------------------------------
(***************************************************************************)
(* Snapshots of a scan and the changes between two of them (diffing.py).   *)
(* A banner stands for what nmap says of a service: its product, version   *)
(* and cpe.  Only product and version are compared, the Version of a       *)
(* banner; severities and texts are left out.                              *)
(***************************************************************************)

CONSTANTS Hosts, Ports, Banners, Version

PortTable == UNION {[P -> Banners] : P \in SUBSET Ports}

HostObs == [state : {"up", "down"}, ports : PortTable]

Snapshot == UNION {[H -> HostObs] : H \in SUBSET Hosts}

NoSnapshot == [h \in {} |-> {}]

\* What a worker sends: parse_nmap_xml carries only hosts that are up and ports
\* that are open.
Reported == {s \in Snapshot : \A h \in DOMAIN s : s[h].state = "up"}

Up(s) == {h \in DOMAIN s : s[h].state = "up"}

Open(s, h) == IF h \in DOMAIN s THEN DOMAIN s[h].ports ELSE {}

Change == [kind : {"host.up", "host.down", "port.open", "port.close",
                   "service.change"},
           host : Hosts, ports : SUBSET Ports]

Changed(kind, h, P) == [kind |-> kind, host |-> h, ports |-> P]

\* A host is reported down only when the scan still lists it.
HostChanges_ListedOnly(prev, cur) ==
       {Changed("host.up", h, Open(cur, h)) : h \in Up(cur) \ DOMAIN prev}
  \cup {Changed("host.up", h, {}) : h \in (Up(cur) \cap DOMAIN prev) \ Up(prev)}
  \cup {Changed("host.down", h, {}) : h \in (Up(prev) \cap DOMAIN cur) \ Up(cur)}

\* A new host brings its ports in the "host.up" change itself; one that was
\* listed before as down brings none there, its ports are compared one by one.
HostChanges(prev, cur) ==
       {Changed("host.up", h, Open(cur, h)) : h \in Up(cur) \ DOMAIN prev}
  \cup {Changed("host.up", h, {}) : h \in (Up(cur) \cap DOMAIN prev) \ Up(prev)}
  \cup {Changed("host.down", h, {}) : h \in Up(prev) \ Up(cur)}

PortChanges(prev, cur, h) ==
       {Changed("port.open", h, {p}) : p \in Open(cur, h) \ Open(prev, h)}
  \cup {Changed("port.close", h, {p}) : p \in Open(prev, h) \ Open(cur, h)}
  \cup {Changed("service.change", h, {p}) :
          p \in {q \in Open(cur, h) \cap Open(prev, h) :
                   Version[prev[h].ports[q]] # Version[cur[h].ports[q]]}}

Diff(prev, cur) ==
  HostChanges(prev, cur)
    \cup UNION {PortChanges(prev, cur, h) : h \in DOMAIN prev \cap DOMAIN cur}
=============================================================================
