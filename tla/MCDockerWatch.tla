--------------------------- MODULE MCDockerWatch ----------------------------
(* Model-checking instance of DockerWatch: two containers of one name, the  *)
(* second created when the first is gone, and one of another name that has  *)
(* a display name, and whose Traefik rules give it one of two subdomains.   *)
EXTENDS DockerWatch, TLC

CONSTANTS c1, c2, c3, plex, wiki, notes, lantern, sPlex, sWiki

Plain(name, sub, ports) ==
    [name |-> name, enable |-> TRUE, title |-> NoName, url |-> NoAddr, sub |-> NoSub,
     ownSub |-> sub, hosts |-> {}, port |-> {}, loadPorts |-> {}, published |-> ports]

MCLabels ==
    c1 :> Plain(plex, sPlex, {80}) @@ c2 :> Plain(plex, sPlex, {80, 7000})
    @@ c3 :> [Plain(wiki, sWiki, {7000}) EXCEPT !.hosts = {sPlex, sWiki}, !.title = notes]

MCPayload == [addr : Addr, home : CName \cup {NoName}]
=============================================================================
