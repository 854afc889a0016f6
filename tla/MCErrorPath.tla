---------------------------- MODULE MCErrorPath ----------------------------
(* Instances of ErrorPath for TLC. *)
EXTENDS ErrorPath, TLC

CONSTANTS r1, r2, s1

\* Absent, one language, two of which the first counts.
SomeHeaders == {<<>>, <<"vi">>, <<"fr", "vi">>}

\* No translations; a fallback that lacks the application's codes and a file
\* that is not one; a language in two files, the second without those codes.
Entry(l, e, ks) == [lang |-> l, ext |-> e, keys |-> ks]
SomeDirs ==
  {<<>>,
   <<Entry("en", "yaml", {"internal"}), Entry("fr", "other", {"app"}), Entry("vi", "yaml", {"app", "internal"})>>,
   <<Entry("en", "yaml", {"app"}), Entry("vi", "yaml", {"app"}), Entry("vi", "yml", {"internal"})>>}
OneDir == {<<Entry("en", "yaml", {"internal"}), Entry("vi", "yaml", {"app", "internal"})>>}

Symmetry == Permutations(Reqs)
=============================================================================
