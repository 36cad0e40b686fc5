---------------------------- MODULE UrlGlobber ----------------------------
(***************************************************************************)
(* pkg/urlglobber: the pure functions that decide which registry           *)
(* credentials match which image, and that build the wildcard key a        *)
(* response uses for its lowest precedence entry.                          *)
(*                                                                         *)
(* An image, a key of a response, an entry of a provider's matchImages and *)
(* the mirror endpoint are all URL records: the scheme they are written    *)
(* with, the dot separated parts of the host, the port, and the path as    *)
(* the sequence of the pieces at which some key may cut it (the code       *)
(* compares paths as raw string prefixes, so a piece need not end at a     *)
(* slash).                                                                 *)
(***************************************************************************)
EXTENDS Sequences, Naturals

CONSTANTS
    Malformed,     \* a text that url.Parse rejects
    PartialGlobs   \* <<"app*", "app1">>: the host parts a pattern other than "*" matches

URL == [scheme : STRING, parts : Seq(STRING), port : STRING, path : Seq(STRING)]

ASSUME MalformedAssumption == Malformed \notin URL

Parses(u) == u # Malformed

\* The scheme is needed only to make url.Parse accept a bare host, and is dropped.
ParsePotentiallySchemelessURL(u) == [u EXCEPT !.scheme = ""]

\* filepath.Match on one host part.
PartMatches(globPart, targetPart) ==
    \/ globPart = "*"
    \/ globPart = targetPart
    \/ <<globPart, targetPart>> \in PartialGlobs

\* strings.HasPrefix on the paths.
PathCovers(globPath, targetPath) ==
    /\ Len(globPath) <= Len(targetPath)
    /\ \A i \in 1..Len(globPath) : globPath[i] = targetPath[i]

URLsMatch(glob, target) ==
    /\ glob.port = target.port
    /\ Len(glob.parts) = Len(target.parts)
    /\ PathCovers(glob.path, target.path)
    /\ \A i \in 1..Len(glob.parts) : PartMatches(glob.parts[i], target.parts[i])

\* Every caller drops the error, so a text that does not parse matches nothing.
URLsMatchStr(glob, target) ==
    /\ Parses(glob)
    /\ Parses(target)
    /\ URLsMatch(ParsePotentiallySchemelessURL(glob), ParsePotentiallySchemelessURL(target))

---------------------------------------------------------------------------
(* reference.ParseNormalizedNamed and reference.Domain: the registry an    *)
(* image name stands for. A name whose first component could not be a host *)
(* is a Docker Hub repository, and so is one of Docker Hub's old domain.   *)

NamesRegistry(img) ==
    /\ img.path # << >>
    /\ Len(img.parts) > 1 \/ img.port # "" \/ img.parts = <<"localhost">>
    /\ img.parts # <<"index", "docker", "io">> \/ img.port # ""

Domain(img) == IF NamesRegistry(img) THEN img.parts ELSE <<"docker", "io">>

DomainPort(img) == IF NamesRegistry(img) THEN img.port ELSE ""

\* Each part of the registry's domain becomes a wildcard, the port stays, the path goes.
GlobbedDomainForImage(img) ==
    [scheme |-> "",
     parts  |-> [i \in 1..Len(Domain(img)) |-> "*"],
     port   |-> DomainPort(img),
     path   |-> << >>]

---------------------------------------------------------------------------
(* The name under which the configured mirror serves an image: the         *)
(* mirror's host and path followed by the path of the image (URL.JoinPath, *)
(* which cleans a slash at the end of the mirror's path away).             *)

WithoutTrailingSlash(path) ==
    IF path # << >> /\ path[Len(path)] = "/" THEN SubSeq(path, 1, Len(path) - 1) ELSE path

MirrorTarget(endpoint, img) ==
    LET mirror == ParsePotentiallySchemelessURL(endpoint)
    IN  [mirror EXCEPT !.path = WithoutTrailingSlash(mirror.path) \o img.path]
===========================================================================
