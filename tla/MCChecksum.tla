----------------------------- MODULE MCChecksum -----------------------------
(* Small instances of login and checksums for TLC. *)
EXTENDS Checksum

Line(name, arg) == [indented |-> TRUE, name |-> name, arg |-> arg]

(* HASH alone, with a legacy command whose algorithm it lacks, with an      *)
(* algorithm this package does not rank, and announced twice; legacy        *)
(* commands alone, two of them for one algorithm; no checksum at all.       *)
MCFeatReplies ==
  { << [indented |-> FALSE, name |-> "XCRC", arg |-> {}],
       Line("HASH", {"SHA-256", "MD5"}) >>,
    << Line("HASH", {"SHA-1"}), Line("XMD5", {}) >>,
    << Line("HASH", {"BLAKE3", "WHIRLPOOL"}) >>,
    << Line("HASH", {"MD5"}), Line("HASH", {"SHA-256", "SHA-512"}) >>,
    << Line("XSHA1", {}), Line("XSHA", {}), Line("MD5", {}) >>,
    << Line("SIZE", {}) >> }

MCAsked == {"", "SHA-256", "SHA-1", "MD5"}
=============================================================================
