\* Three ports, two flits: two inputs may contend for an output, and the
\* registers left over from an older flit differ from the new one.
SPECIFICATION SwitchSpec
CONSTANTS NumPorts = 3
          Flits = {f1, f2}
          Invalid = Invalid
INVARIANTS SwitchInv InputFree
PROPERTY ImplementsOneFlitSwitch
