-------------------------- MODULE MCInstallations --------------------------
(* Instances of Installations for TLC: two organizations.                  *)
EXTENDS Installations

Entry(o, project, template) == [org |-> o, project |-> project, template |-> template]

\* One project; another template; another organization; one project more; the two
\* swap their names; the first one is renamed and the second one gets its name.
MCRegistries ==
    {<<Entry("a", "P", "T")>>,
     <<Entry("a", "P", "U")>>,
     <<Entry("b", "P", "T")>>,
     <<Entry("a", "P", "T"), Entry("b", "Q", "T")>>,
     <<Entry("a", "Q", "T"), Entry("b", "P", "T")>>,
     <<Entry("a", "R", "T"), Entry("b", "P", "T")>>}
=============================================================================
