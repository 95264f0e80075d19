---------------------------- MODULE MCGLXDiscovery ----------------------------
(* Two local ports, of which a server may have three screens, and one server on  *)
(* another machine.                                                         *)
EXTENDS GLXDiscovery

OneRemote == {"hostB"}

ServerOfSizes(sizes, glx, vnc) == [screens |-> sizes, glx |-> glx, vnc |-> vnc]

FewStates ==
  {ServerOfSizes(<< >>, FALSE, FALSE), ServerOfSizes(<<"small">>, FALSE, FALSE),
   ServerOfSizes(<<"small">>, TRUE, FALSE), ServerOfSizes(<<"large", "small", "small">>, TRUE, TRUE)}

FewDisplays ==
  {NoDisplay, Name("", 0, NoScreen), Name("", 0, 1), Name("", 2, 0), Name("hostB", 0, NoScreen)}

FewVGLDisplays == {Name("", 0, NoScreen), Name("", 0, 1), Name("", 1, 2)}

================================================================================
