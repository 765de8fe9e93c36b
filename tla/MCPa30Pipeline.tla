---- MODULE MCPa30Pipeline ----
(* A small instance of Pa30Pipeline: a file that is no image, native images
   that differ in each of the parts the two ends rewrite, managed images with
   metadata that parses and that does not, and files over the limit. *)
EXTENDS Pa30Pipeline

Text == [Nothing EXCEPT !.body = 1]
Native ==
  [machine |-> "amd64", clr |-> "none", size |-> 1, stamp |-> 1, site |-> 1, checksum |-> 1,
   base |-> 1, operand |-> 2, bound |-> 0, sections |-> 1, token |-> 0, body |-> 1]
Rebuilt == [Native EXCEPT !.stamp = 2, !.site = 2, !.base = 2, !.operand = 3, !.sections = 2]

\* A copy of a debug record: the site keeps the stamp of an earlier build.
Stale == [Rebuilt EXCEPT !.site = 1, !.checksum = 0]
Bound == [Native EXCEPT !.bound = 1, !.body = 0]
X86   == [Native EXCEPT !.machine = "i386", !.body = 0]
Arm   == [Native EXCEPT !.machine = "arm64"]
Net   == [Native EXCEPT !.clr = "sound", !.token = 2]
Net2  == [Rebuilt EXCEPT !.clr = "sound", !.token = 3]
Broken == [Net EXCEPT !.clr = "broken"]
Large == [Text EXCEPT !.size = 2]

MCImages == {Text, Native, Rebuilt, Stale, Bound, X86, Arm, Net, Net2, Broken, Large}
StampImages == {Native, Stale}
MCCopyParts == {Parts, {"body", "operand", "token", "bound"}, {"stamp", "site", "base", "checksum"}}
====
